---- MODULE Spec2Model ----
(***************************************************************************)
(* Order / payment reconciliation of Nathan-backend.                       *)
(*                                                                         *)
(* The ledger (prisma.order), the payment processor's session list and the *)
(* shipping provider are the shared state.  Every HTTP handler is a        *)
(* process: it runs from one `await` to the next in one atomic step, and   *)
(* handlers of different requests interleave at those points.              *)
(*                                                                         *)
(* Two webhook handlers exist in the repository: the one of                *)
(* payments.routes.ts (handler "payments") and the one of the payments     *)
(* router kept in order.routes.ts (handler "order").                       *)
(*                                                                         *)
(* Money is kept in cents: order.total * 100 and session.amount_total.     *)
(* An address is a record of provenance tags: which source each group of   *)
(* fields was copied from.                                                 *)
(***************************************************************************)
EXTENDS Integers, Sequences, FiniteSets, TLC

\* ---------------------------------------------------------------- bounds
MaxOrders == 2
MaxRequests == 2
MaxSessions == 2
SweepOrders == 3

\* ------------------------------------------------------ program constants
ChargeListLimitOrder == 10
ChargeListLimitPayments == 100
VerifyListLimit == 10
SweepListLimit == 50

\* ------------------------------------------------------------ value sets
SlotOrder == <<"r1", "r2">>
Slots == {SlotOrder[i] : i \in DOMAIN SlotOrder}
Handlers == {"order", "payments"}
Users == {"A", "B"}
NoUser == "none"
userEmail == [u \in Users |-> IF u = "A" THEN "a@mail" ELSE "b@mail"]
Emails == {"a@mail", "b@mail", "x@mail"}
Totals == {1000, 2500}
RateLists == {<<>>, <<"rateA">>, <<"rateB", "rateA">>}

\* prisma.user.findUnique({ where: { email } })
UserByEmail(m) ==
  IF \E u \in Users : userEmail[u] = m
  THEN CHOOSE u \in Users : userEmail[u] = m
  ELSE NoUser

\* prisma.user.findUnique({ where: { id } })
UserById(id) == IF id \in Users THEN id ELSE NoUser

\* the fields of an address that say where it is
StreetLevel == {"street1", "street2", "city", "state", "zip", "country"}

\* an address all of whose fields come from one source
WholeAddr(src) ==
  [f \in StreetLevel \cup {"name", "email", "phone"} |-> src]

NoAddr == WholeAddr("null")

Min(a, b) == IF a < b THEN a ELSE b

VARIABLES
  env,        \* process.env: STRIPE_SECRET_KEY and STRIPE_WEBHOOK_SECRET set or not
  orders,     \* the ledger: sequence of order records, the id is the index
  origin,     \* history: for each order, the event it was created from
  sessions,   \* the processor's checkout sessions, most recent first
  shipments,  \* the shipping provider's shipments, in creation order
  rateCalls,  \* history: getShippingRates calls made for each order id
  req,        \* the handler invocation in each slot
  started,    \* history: requests started so far
  redelivery  \* the delivery the processor repeats (replay scenarios only)

\* what no handler changes
fixed == <<env, redelivery>>

vars ==
  <<env, orders, origin, sessions, shipments, rateCalls, req, started,
    redelivery>>

\* --------------------------------------------------------------- events
\* A verified Stripe event, reduced to the fields the handlers read.
\*   orderId            metadata.orderId (0: absent)
\*   orderData          metadata.orderData: "none", "ok" (parses) or "bad"
\*   metaTotal          total of the parsed orderData
\*   metaAddress        the parsed orderData carries an address object
\*   customer_details   "none", or the e-mail of the customer_details object
\*   shipping_details / shipping   the session carries that object
\*   shippingComplete   session.shipping has line1, city, state, postal
\*                      code and country
\*   billingComplete    so has customer_details.address
\*   metaComplete       so has the address of the parsed orderData
\*   amount_total       session.amount_total in cents (0: null)
\*   payment_intent     charge.payment_intent ("none": null)
\*   chargeOk           charge.status === "succeeded" && charge.paid
BaseEvent ==
  [type |-> "other", orderId |-> 0, orderData |-> "none", metaTotal |-> 0,
   metaAddress |-> FALSE, authenticatedUserId |-> NoUser,
   customer_details |-> "none", payment_status |-> "paid", amount_total |-> 0,
   shipping_details |-> FALSE, shipping |-> FALSE,
   shippingComplete |-> FALSE, billingComplete |-> FALSE,
   metaComplete |-> FALSE,
   payment_intent |-> "none", chargeOk |-> FALSE]

CompletedExisting ==
  {[BaseEvent EXCEPT !.type = "checkout.session.completed", !.orderId = o,
      !.amount_total = a, !.shipping_details = sd, !.customer_details = cd] :
     o \in 1..MaxOrders, a \in {0} \cup Totals, sd \in BOOLEAN,
     cd \in {"none", "a@mail"}}

CompletedDeferred ==
  {[BaseEvent EXCEPT !.type = "checkout.session.completed", !.orderData = "ok",
      !.metaTotal = 1000, !.metaAddress = ma, !.authenticatedUserId = au,
      !.customer_details = cd, !.shipping = sh] :
     ma \in BOOLEAN, au \in Users \cup {NoUser, "ghost"},
     cd \in Emails \cup {"none"}, sh \in BOOLEAN}
  \cup {[BaseEvent EXCEPT !.type = "checkout.session.completed",
           !.orderData = "bad", !.authenticatedUserId = "A",
           !.customer_details = "a@mail"]}

CompletedUnpaid ==
  {[BaseEvent EXCEPT !.type = "checkout.session.completed", !.orderId = 1,
      !.payment_status = "unpaid"]}

CompletedEmpty == {[BaseEvent EXCEPT !.type = "checkout.session.completed"]}

PaymentFailed ==
  {[BaseEvent EXCEPT !.type = "payment_intent.payment_failed", !.orderId = o,
      !.payment_status = "unpaid"] : o \in 0..MaxOrders}

PaymentIntents == {"pi_1", "pi_2"}

ChargeUpdated ==
  {[BaseEvent EXCEPT !.type = "charge.updated", !.payment_intent = pi,
      !.chargeOk = ok] : pi \in PaymentIntents \cup {"none"}, ok \in BOOLEAN}

OtherEvents == {BaseEvent}

NoEvent == [BaseEvent EXCEPT !.type = "null"]

Events ==
  CompletedExisting \cup CompletedDeferred \cup CompletedUnpaid \cup
  CompletedEmpty \cup PaymentFailed \cup ChargeUpdated \cup OtherEvents

\* ------------------------------------------------------------- requests
NoUpdate == [total |-> 0, shippingAddress |-> NoAddr]

\* A string, reduced to how many of its characters are ASCII and how many
\* are two-byte characters such as an accented letter; JSON.stringify leaves
\* both as they are.
NoString == [ascii |-> 0, wide |-> 0]

\* String.prototype.length: the number of UTF-16 code units
Length(str) == str.ascii + str.wide

\* the size of the string as it is stored and sent, in UTF-8
Utf8Bytes(str) == str.ascii + 2 * str.wide

\* A checkout session at the processor, reduced to its payment state and
\* its metadata: orderId (0: absent), authenticatedUserId (NoUser: absent)
\* and orderData (NoString: absent).
NoSession ==
  [orderId |-> 0, payment_intent |-> "none", payment_status |-> "none",
   authenticatedUserId |-> NoUser, orderData |-> NoString]

\* The body of a create-checkout-session request:
\*   items       it carries a non-empty items array
\*   orderId     0: absent
\*   orderData   "none", "ok", or "malformed" (an object whose orderItems
\*               or shippingAddress is missing)
\*   dataString  what JSON.stringify makes of the compressed order data
\*   userId      a user id the client wrote into the body
NoBody ==
  [items |-> FALSE, orderId |-> 0, orderData |-> "none",
   dataString |-> NoString, userId |-> NoUser]

IdleReq ==
  [kind |-> "idle", handler |-> "-", sig |-> "-", ev |-> NoEvent,
   verified |-> FALSE, pc |-> "idle", resp |-> 0, oid |-> 0,
   upd |-> NoUpdate, addr |-> NoAddr, user |-> NoUser, rate |-> "none",
   dec |-> "none", list |-> <<>>,
   auth |-> NoUser, body |-> NoBody, session |-> NoSession, fixed |-> FALSE,
   counts |-> [fixedCount |-> 0, failedCount |-> 0, noSessionCount |-> 0,
               totalProcessed |-> 0]]

\* res.status(code): the handler returns and its locals are dropped
Finish(r, code) ==
  [r EXCEPT !.pc = "done", !.resp = code, !.handler = "-", !.ev = NoEvent,
            !.oid = 0,
            !.upd = NoUpdate,
            !.addr = NoAddr, !.user = NoUser, !.rate = "none",
            !.dec = "none", !.list = <<>>,
            !.auth = NoUser, !.body = NoBody, !.session = NoSession]

Goto(r, pc) == [r EXCEPT !.pc = pc]

Exists(oid) == oid \in DOMAIN orders

Free(s) == req[s].pc \in {"idle", "done"}

\* a new request is served in the first slot that runs no handler
Accept(s) ==
  /\ started < MaxRequests
  /\ \E i \in DOMAIN SlotOrder :
       /\ SlotOrder[i] = s
       /\ Free(s)
       /\ \A j \in 1..(i - 1) : ~Free(SlotOrder[j])

\* mutant of PaidData: the lifecycle status is left as it was
PaidDataStatusKept(o) ==
  [o EXCEPT !.paymentStatus = "paid", !.stale = FALSE]

\* the data of the updates that mark an order paid, and of those that mark
\* it failed
PaidData(o) ==
  [o EXCEPT !.paymentStatus = "paid", !.status = "confirmed", !.stale = FALSE]

\* mutant of FailedData: the failed payment also cancels the order
FailedDataCancels(o) ==
  [o EXCEPT !.paymentStatus = "failed", !.status = "cancelled", !.stale = FALSE]

FailedData(o) == [o EXCEPT !.paymentStatus = "failed", !.stale = FALSE]

\* ---------------------------------------------------- webhook: entry
\* mutant of VerifyStatus: a signature that does not verify is let through
VerifyStatusTrusting(sig) ==
  IF ~env.stripeKey THEN 503
  ELSE IF sig = "missing" \/ ~env.webhookSecret THEN 400
  ELSE 0

\* The event verifier: the status it rejects the request with, 0 when the
\* event is verified.  sig is the stripe-signature header: "missing", "bad"
\* (constructEvent throws) or "good".
VerifyStatus(sig) ==
  IF ~env.stripeKey THEN 503
  ELSE IF sig = "missing" \/ ~env.webhookSecret THEN 400
  ELSE IF sig = "bad" THEN 400
  ELSE 0

\* mutant of Dispatch: an event of a type without branch is rejected
DispatchRejectsUnknown(h, e) ==
  IF e.type = "checkout.session.completed" THEN
    IF e.orderId # 0 THEN
      IF h = "order" THEN <<"findExisting", 0>> ELSE <<"updateExisting", 0>>
    ELSE IF e.orderData # "none" THEN
      IF h = "order" THEN
        IF e.orderData = "bad" THEN <<"done", 400>>
        ELSE IF e.customer_details = "none" THEN <<"done", 400>>
        ELSE <<"findUserByEmail", 0>>
      ELSE
        IF e.orderData = "bad" THEN <<"done", 500>>
        ELSE IF e.authenticatedUserId = NoUser THEN <<"done", 400>>
        ELSE <<"findUserById", 0>>
    ELSE
      IF h = "order" THEN <<"done", 400>> ELSE <<"done", 200>>
  ELSE IF e.type = "payment_intent.payment_failed" /\ h = "order" THEN
    IF e.orderId # 0 THEN <<"failedUpdate", 0>> ELSE <<"done", 200>>
  ELSE IF e.type = "charge.updated" THEN
    IF e.payment_intent # "none" THEN <<"listSessions", 0>> ELSE <<"done", 200>>
  ELSE <<"done", 400>>

\* From the verified event to the handler's first await: <<pc, status>>,
\* pc = "done" when the handler answers without awaiting anything.
Dispatch(h, e) ==
  IF e.type = "checkout.session.completed" THEN
    IF e.orderId # 0 THEN
      IF h = "order" THEN <<"findExisting", 0>> ELSE <<"updateExisting", 0>>
    ELSE IF e.orderData # "none" THEN
      IF h = "order" THEN
        IF e.orderData = "bad" THEN <<"done", 400>>
        ELSE IF e.customer_details = "none" THEN <<"done", 400>>
        ELSE <<"findUserByEmail", 0>>
      ELSE
        IF e.orderData = "bad" THEN <<"done", 500>>
        ELSE IF e.authenticatedUserId = NoUser THEN <<"done", 400>>
        ELSE <<"findUserById", 0>>
    ELSE
      IF h = "order" THEN <<"done", 400>> ELSE <<"done", 200>>
  ELSE IF e.type = "payment_intent.payment_failed" /\ h = "order" THEN
    IF e.orderId # 0 THEN <<"failedUpdate", 0>> ELSE <<"done", 200>>
  ELSE IF e.type = "charge.updated" THEN
    IF e.payment_intent # "none" THEN <<"listSessions", 0>> ELSE <<"done", 200>>
  ELSE <<"done", 200>>

Webhook(s, h, sig, e) ==
  /\ Accept(s)
  /\ started' = started + 1
  /\ LET r0 == [IdleReq EXCEPT !.kind = "webhook", !.handler = h, !.sig = sig]
         st == VerifyStatus(sig)
         d  == Dispatch(h, e)
     IN req' = [req EXCEPT ![s] =
          IF st # 0 THEN Finish(r0, st)
          ELSE IF d[1] = "done"
               THEN Finish([r0 EXCEPT !.ev = e, !.verified = TRUE], d[2])
               ELSE [r0 EXCEPT !.ev = e, !.verified = TRUE, !.pc = d[1]]]
  /\ UNCHANGED <<fixed, orders, origin, sessions, shipments, rateCalls>>

\* ------------------------------- webhook: session completed, existing order
\* order.routes.ts: the data of the update, from the order as read
UpdateData(e, existingOrder) ==
  [total |-> IF e.amount_total # 0 /\ e.amount_total # existingOrder.total
             THEN e.amount_total ELSE 0,
   shippingAddress |->
     IF e.shipping_details THEN WholeAddr("shipping_details")
     ELSE IF e.customer_details # "none" THEN WholeAddr("customer_details")
     ELSE NoAddr]

ApplyUpdateData(o, upd) ==
  [PaidData(o) EXCEPT
     !.total = IF upd.total # 0 THEN upd.total ELSE @,
     !.shippingAddress = IF upd.shippingAddress # NoAddr
                         THEN upd.shippingAddress ELSE @]

\* order.routes.ts: the hand-off test on the order returned by the update
OrderNeedsShipment(updatedOrder) ==
  updatedOrder.shipmentId = 0 /\ updatedOrder.shippingAddress # NoAddr

\* payments.routes.ts: the hand-off test on the order read back
PaymentsNeedsShipment(updatedOrder) == updatedOrder.shippingAddress # NoAddr

OrderFindExisting(s, dbOk) ==
  LET r == req[s] IN
  /\ r.pc = "findExisting"
  /\ req' = [req EXCEPT ![s] =
       IF ~dbOk THEN Finish(r, 500)
       ELSE IF ~Exists(r.ev.orderId) THEN Finish(r, 404)
       ELSE [r EXCEPT !.pc = "orderUpdate", !.oid = r.ev.orderId,
                      !.upd = UpdateData(r.ev, orders[r.ev.orderId])]]
  /\ UNCHANGED <<fixed, orders, origin, sessions, shipments, rateCalls, started>>

OrderUpdateExisting(s, dbOk) ==
  LET r == req[s] IN
  /\ r.pc = "orderUpdate"
  /\ IF ~dbOk \/ ~Exists(r.oid)
     THEN /\ req' = [req EXCEPT ![s] = Finish(r, 500)]
          /\ UNCHANGED orders
     ELSE LET updatedOrder == ApplyUpdateData(orders[r.oid], r.upd) IN
          /\ orders' = [orders EXCEPT ![r.oid] = updatedOrder]
          /\ req' = [req EXCEPT ![s] =
               IF OrderNeedsShipment(updatedOrder)
               THEN [r EXCEPT !.pc = "getRates", !.upd = NoUpdate,
                              !.addr = updatedOrder.shippingAddress]
               ELSE Finish(r, 200)]
  /\ UNCHANGED <<fixed, origin, sessions, shipments, rateCalls, started>>

\* mutant of PaymentsUpdateExisting: the order is read back and handed to
\* the trigger without having been written
PaymentsUpdateSkipped(s, dbOk) ==
  LET r == req[s] IN
  /\ r.pc = "updateExisting"
  /\ IF ~dbOk \/ ~Exists(r.ev.orderId)
     THEN req' = [req EXCEPT ![s] = Finish(r, 500)]
     ELSE req' = [req EXCEPT ![s] =
               [r EXCEPT !.pc = "findUpdated", !.oid = r.ev.orderId]]
  /\ UNCHANGED <<fixed, orders, origin, sessions, shipments, rateCalls, started>>

PaymentsUpdateExisting(s, dbOk) ==
  LET r == req[s] IN
  /\ r.pc = "updateExisting"
  /\ IF ~dbOk \/ ~Exists(r.ev.orderId)
     THEN /\ req' = [req EXCEPT ![s] = Finish(r, 500)]
          /\ UNCHANGED orders
     ELSE /\ orders' = [orders EXCEPT ![r.ev.orderId] = PaidData(@)]
          /\ req' = [req EXCEPT ![s] =
               [r EXCEPT !.pc = "findUpdated", !.oid = r.ev.orderId]]
  /\ UNCHANGED <<fixed, origin, sessions, shipments, rateCalls, started>>

PaymentsFindUpdated(s, dbOk) ==
  LET r == req[s] IN
  /\ r.pc = "findUpdated"
  /\ req' = [req EXCEPT ![s] =
       IF dbOk /\ Exists(r.oid) /\ PaymentsNeedsShipment(orders[r.oid])
       THEN [r EXCEPT !.pc = "getRates", !.addr = orders[r.oid].shippingAddress]
       ELSE Finish(r, 200)]
  /\ UNCHANGED <<fixed, orders, origin, sessions, shipments, rateCalls, started>>

\* ------------------------------------------------- the shipment trigger
\* mutant of GetRates: the last rate of the list is used
GetRatesLast(s, ok, rates) ==
  LET r == req[s] IN
  /\ r.pc = "getRates"
  /\ rateCalls' = [rateCalls EXCEPT ![r.oid] = @ + 1]
  /\ req' = [req EXCEPT ![s] =
       IF ~ok \/ rates = <<>> THEN Finish(r, 200)
       ELSE [r EXCEPT !.pc = "createShipment", !.rate = rates[Len(rates)]]]
  /\ UNCHANGED <<fixed, orders, origin, sessions, shipments, started>>

\* mutant of GetRates: a throwing rate lookup fails the webhook
GetRatesFailureSurfaces(s, ok, rates) ==
  LET r == req[s] IN
  /\ r.pc = "getRates"
  /\ rateCalls' = [rateCalls EXCEPT ![r.oid] = @ + 1]
  /\ req' = [req EXCEPT ![s] =
       IF ~ok THEN Finish(r, 500)
       ELSE IF rates = <<>> THEN Finish(r, 200)
       ELSE [r EXCEPT !.pc = "createShipment", !.rate = rates[1]]]
  /\ UNCHANGED <<fixed, orders, origin, sessions, shipments, started>>

\* getShippingRates: rates is the provider's answer, ok is FALSE when it throws
GetRates(s, ok, rates) ==
  LET r == req[s] IN
  /\ r.pc = "getRates"
  /\ rateCalls' = [rateCalls EXCEPT ![r.oid] = @ + 1]
  /\ req' = [req EXCEPT ![s] =
       IF ~ok \/ rates = <<>> THEN Finish(r, 200)
       ELSE [r EXCEPT !.pc = "createShipment", !.rate = rates[1]]]
  /\ UNCHANGED <<fixed, orders, origin, sessions, shipments, started>>

\* shippoService.createShipment: creates the shipment at the provider and
\* persists its reference onto the order; "unpersisted" is a failure after
\* the provider created it, "failed" one before.
CreateShipment(s, outcome) ==
  LET r == req[s] IN
  /\ r.pc = "createShipment"
  /\ shipments' = IF outcome = "failed" THEN shipments
                  ELSE Append(shipments, [orderId |-> r.oid, rate |-> r.rate])
  /\ orders' = IF outcome = "created" /\ Exists(r.oid)
               THEN [orders EXCEPT ![r.oid].shipmentId = Len(shipments')]
               ELSE orders
  /\ req' = [req EXCEPT ![s] = Finish(r, 200)]
  /\ UNCHANGED <<fixed, origin, sessions, rateCalls, started>>

\* ------------------------------ webhook: session completed, deferred order
\* order.routes.ts: the owner is the user whose e-mail the processor reports
OrderOwner(e) == UserByEmail(e.customer_details)

\* mutant of PaymentsOwner: when metadata names no known user, the owner is
\* looked up by the e-mail the processor reports
PaymentsOwnerByEmail(e) ==
  IF UserById(e.authenticatedUserId) # NoUser
  THEN UserById(e.authenticatedUserId)
  ELSE UserByEmail(e.customer_details)

\* payments.routes.ts: the owner is the user named by metadata
PaymentsOwner(e) == UserById(e.authenticatedUserId)

\* order.routes.ts: the address is rebuilt from the metadata address, which
\* has no second street line
OrderDeferredAddress(e) == [WholeAddr("metadata") EXCEPT !.street2 = "absent"]

\* mutant of PaymentsDeferredAddress: what session.shipping lacks is filled
\* in from the metadata address
PaymentsDeferredAddressFilled(e) ==
  LET contact == IF e.customer_details # "none" THEN "customer_details"
                 ELSE "metadata"
      gaps == IF e.shippingComplete \/ ~e.metaAddress THEN "shipping"
              ELSE "metadata"
  IN IF e.shipping
     THEN [WholeAddr("shipping") EXCEPT !.email = contact, !.city = gaps,
                                        !.zip = gaps]
     ELSE IF e.metaAddress
     THEN [WholeAddr("metadata") EXCEPT !.name = contact, !.email = contact]
     ELSE NoAddr

\* payments.routes.ts: session.shipping first, then the metadata address;
\* name and e-mail are taken from customer_details when it is there
PaymentsDeferredAddress(e) ==
  LET contact == IF e.customer_details # "none" THEN "customer_details"
                 ELSE "metadata"
  IN IF e.shipping
     THEN [WholeAddr("shipping") EXCEPT !.email = contact]
     ELSE IF e.metaAddress
     THEN [WholeAddr("metadata") EXCEPT !.name = contact, !.email = contact]
     ELSE NoAddr

\* mutant of NewOrder: the order is created awaiting its payment
NewOrderPending(user, e, addr) ==
  [userId |-> user, status |-> "pending_payment", paymentStatus |-> "pending",
   total |-> e.metaTotal, shippingAddress |-> addr, shipmentId |-> 0,
   orderItems |-> "metadata", old |-> FALSE, stale |-> FALSE]

\* prisma.order.create with its nested orderItems
NewOrder(user, e, addr) ==
  [userId |-> user, status |-> "confirmed", paymentStatus |-> "paid",
   total |-> e.metaTotal, shippingAddress |-> addr, shipmentId |-> 0,
   orderItems |-> "metadata", old |-> FALSE, stale |-> FALSE]

OrderFindUserByEmail(s, dbOk) ==
  LET r == req[s]
      user == OrderOwner(r.ev)
  IN
  /\ r.pc = "findUserByEmail"
  /\ req' = [req EXCEPT ![s] =
       IF ~dbOk THEN Finish(r, 400)
       ELSE IF user = NoUser THEN Finish(r, 404)
       ELSE IF ~r.ev.metaAddress THEN Finish(r, 400)
       ELSE [r EXCEPT !.pc = "createOrder", !.user = user,
                      !.addr = OrderDeferredAddress(r.ev)]]
  /\ UNCHANGED <<fixed, orders, origin, sessions, shipments, rateCalls, started>>

PaymentsFindUserById(s, dbOk) ==
  LET r == req[s]
      user == PaymentsOwner(r.ev)
      addr == PaymentsDeferredAddress(r.ev)
  IN
  /\ r.pc = "findUserById"
  /\ req' = [req EXCEPT ![s] =
       IF ~dbOk THEN Finish(r, 500)
       ELSE IF user = NoUser THEN Finish(r, 404)
       ELSE IF addr = NoAddr THEN Finish(r, 400)
       ELSE [r EXCEPT !.pc = "createOrder", !.user = user, !.addr = addr]]
  /\ UNCHANGED <<fixed, orders, origin, sessions, shipments, rateCalls, started>>

CreateOrder(s, dbOk) ==
  LET r == req[s] IN
  /\ r.pc = "createOrder"
  /\ Len(orders) < MaxOrders
  /\ IF ~dbOk
     THEN /\ req' = [req EXCEPT ![s] =
               Finish(r, IF r.handler = "order" THEN 400 ELSE 500)]
          /\ UNCHANGED <<orders, origin, redelivery>>
     ELSE /\ orders' = Append(orders, NewOrder(r.user, r.ev, r.addr))
          /\ origin' = Append(origin, r.ev)
          /\ req' = [req EXCEPT ![s] =
               [r EXCEPT !.pc = "getRates", !.oid = Len(orders) + 1]]
  /\ UNCHANGED <<fixed, sessions, shipments, rateCalls, started>>

\* ------------------------------------------------ webhook: payment failed
OrderPaymentFailed(s, dbOk) ==
  LET r == req[s] IN
  /\ r.pc = "failedUpdate"
  /\ orders' = IF dbOk /\ Exists(r.ev.orderId)
               THEN [orders EXCEPT ![r.ev.orderId] = FailedData(@)]
               ELSE orders
  /\ req' = [req EXCEPT ![s] = Finish(r, 200)]
  /\ UNCHANGED <<fixed, origin, sessions, shipments, rateCalls, started>>

\* ------------------------------------------------ webhook: charge updated
\* stripe.checkout.sessions.list({ limit })
ListSessions(limit) == SubSeq(sessions, 1, Min(limit, Len(sessions)))

\* mutant of FindByIntent: the most recent session is taken for the charge's
FindByIntentLatest(list, pi) ==
  IF list # <<>> THEN list[1] ELSE NoSession

\* Array.prototype.find: the first matching element, NoSession when none
FindByIntent(list, pi) ==
  IF \E i \in DOMAIN list : list[i].payment_intent = pi
  THEN list[CHOOSE i \in DOMAIN list :
              /\ list[i].payment_intent = pi
              /\ \A j \in 1..(i - 1) : list[j].payment_intent # pi]
  ELSE NoSession

FindByOrder(list, oid) ==
  IF \E i \in DOMAIN list : list[i].orderId = oid
  THEN list[CHOOSE i \in DOMAIN list :
              /\ list[i].orderId = oid
              /\ \A j \in 1..(i - 1) : list[j].orderId # oid]
  ELSE NoSession

ChargeListLimit(h) ==
  IF h = "order" THEN ChargeListLimitOrder ELSE ChargeListLimitPayments

ChargeListSessions(s, apiOk) ==
  LET r == req[s]
      session == FindByIntent(ListSessions(ChargeListLimit(r.handler)),
                              r.ev.payment_intent)
  IN
  /\ r.pc = "listSessions"
  /\ req' = [req EXCEPT ![s] =
       IF ~apiOk THEN Finish(r, 500)
       ELSE IF session # NoSession /\ session.orderId # 0 /\ r.ev.chargeOk
       THEN [r EXCEPT !.pc = "chargeUpdate", !.oid = session.orderId]
       ELSE Finish(r, 200)]
  /\ UNCHANGED <<fixed, orders, origin, sessions, shipments, rateCalls, started>>

\* mutant of ChargeUpdate: the charge.updated branch hands the order to the
\* shipment trigger as the session-completed branch does
ChargeUpdateTriggers(s, dbOk) ==
  LET r == req[s] IN
  /\ r.pc = "chargeUpdate"
  /\ IF ~dbOk \/ ~Exists(r.oid)
     THEN /\ req' = [req EXCEPT ![s] = Finish(r, 500)]
          /\ UNCHANGED orders
     ELSE LET updatedOrder == PaidData(orders[r.oid]) IN
          /\ orders' = [orders EXCEPT ![r.oid] = updatedOrder]
          /\ req' = [req EXCEPT ![s] =
               IF OrderNeedsShipment(updatedOrder)
               THEN [r EXCEPT !.pc = "getRates",
                              !.addr = updatedOrder.shippingAddress]
               ELSE Finish(r, 200)]
  /\ UNCHANGED <<fixed, origin, sessions, shipments, rateCalls, started>>

ChargeUpdate(s, dbOk) ==
  LET r == req[s] IN
  /\ r.pc = "chargeUpdate"
  /\ IF ~dbOk \/ ~Exists(r.oid)
     THEN /\ req' = [req EXCEPT ![s] = Finish(r, 500)]
          /\ UNCHANGED orders
     ELSE /\ orders' = [orders EXCEPT ![r.oid] = PaidData(@)]
          /\ req' = [req EXCEPT ![s] = Finish(r, 200)]
  /\ UNCHANGED <<fixed, origin, sessions, shipments, rateCalls, started>>

\* ----------------------------------------------- create-checkout-session
\* The limit both handlers put on dataString.length
MetadataLimit == 500

\* the protect middleware: the status it rejects the request with, 0 when
\* it lets the request through with req.user set.  auth is the user the
\* request's credentials prove, NoUser when they prove none.
Protect(auth) == IF auth = NoUser THEN 401 ELSE 0

\* payments.routes.ts is mounted behind protect; the router kept in
\* order.routes.ts is not
Protected(h) == h = "payments"

\* the metadata of the session the handler asks the processor for
CheckoutMetadata(h, user, body) ==
  [NoSession EXCEPT
     !.payment_status = "unpaid",
     !.authenticatedUserId = IF h = "payments" THEN user ELSE NoUser,
     !.orderId = body.orderId,
     !.orderData = IF body.orderId = 0 /\ body.orderData = "ok"
                   THEN body.dataString ELSE NoString]

\* From the request body to the call of the processor: the request as it
\* waits for stripe.checkout.sessions.create, or as it was answered
CheckoutBuild(r, user) ==
  LET body == r.body IN
  IF ~body.items THEN Finish(r, 400)
  ELSE IF body.orderId = 0 /\ body.orderData = "malformed" THEN Finish(r, 500)
  ELSE IF /\ body.orderId = 0 /\ body.orderData = "ok"
          /\ Length(body.dataString) > MetadataLimit
       THEN Finish(r, 400)
  ELSE [r EXCEPT !.pc = "checkoutCreate",
                 !.session = CheckoutMetadata(r.handler, user, body)]

CreateCheckoutSession(s, h, auth, body) ==
  /\ Accept(s)
  /\ started' = started + 1
  /\ LET r0 == [IdleReq EXCEPT !.kind = "checkout", !.handler = h,
                               !.auth = auth, !.body = body]
     IN req' = [req EXCEPT ![s] =
          IF Protected(h) /\ Protect(auth) # 0 THEN Finish(r0, Protect(auth))
          ELSE IF ~env.stripeKey THEN Finish(r0, 503)
          ELSE IF h = "payments"
               THEN [r0 EXCEPT !.pc = "checkoutFindUser", !.user = auth]
               ELSE CheckoutBuild(r0, NoUser)]
  /\ UNCHANGED <<fixed, orders, origin, sessions, shipments, rateCalls>>

\* payments.routes.ts: prisma.user.findUnique({ where: { id: user.id } })
CheckoutFindUser(s, dbOk) ==
  LET r == req[s]
      dbUser == UserById(r.user)
  IN
  /\ r.pc = "checkoutFindUser"
  /\ req' = [req EXCEPT ![s] =
       IF ~dbOk THEN Finish(r, 500)
       ELSE IF dbUser = NoUser THEN Finish(r, 404)
       ELSE CheckoutBuild(r, dbUser)]
  /\ UNCHANGED <<fixed, orders, origin, sessions, shipments, rateCalls, started>>

\* mutant of CheckoutCreate: the order is created with the session, awaiting
\* its payment
CheckoutCreateWithOrder(s, apiOk) ==
  LET r == req[s] IN
  /\ r.pc = "checkoutCreate"
  /\ Len(sessions) < MaxSessions
  /\ IF ~apiOk
     THEN /\ req' = [req EXCEPT ![s] = Finish(r, 500)]
          /\ UNCHANGED <<sessions, orders, origin>>
     ELSE /\ sessions' = <<r.session>> \o sessions
          /\ orders' = IF Len(orders) < MaxOrders
                       THEN Append(orders, [orders[1] EXCEPT !.shipmentId = 0])
                       ELSE orders
          /\ origin' = IF Len(orders) < MaxOrders
                       THEN Append(origin, NoEvent) ELSE origin
          /\ req' = [req EXCEPT ![s] = Finish(r, 200)]
  /\ UNCHANGED <<fixed, shipments, rateCalls, started>>

\* stripe.checkout.sessions.create({ ..., metadata })
CheckoutCreate(s, apiOk) ==
  LET r == req[s] IN
  /\ r.pc = "checkoutCreate"
  /\ Len(sessions) < MaxSessions
  /\ IF ~apiOk
     THEN /\ req' = [req EXCEPT ![s] = Finish(r, 500)]
          /\ UNCHANGED sessions
     ELSE /\ sessions' = <<r.session>> \o sessions
          /\ req' = [req EXCEPT ![s] = Finish(r, 200)]
  /\ UNCHANGED <<fixed, orders, origin, shipments, rateCalls, started>>

\* --------------------------------------------------------- retry-payment
NewSession(oid) ==
  [NoSession EXCEPT !.orderId = oid, !.payment_status = "unpaid"]

RetryPayment(s, orderId) ==
  /\ Accept(s)
  /\ started' = started + 1
  /\ LET r0 == [IdleReq EXCEPT !.kind = "retry", !.oid = orderId] IN
     req' = [req EXCEPT ![s] =
       IF ~env.stripeKey THEN Finish(r0, 503)
       ELSE IF orderId = 0 THEN Finish(r0, 400)
       ELSE Goto(r0, "retryFind")]
  /\ UNCHANGED <<fixed, orders, origin, sessions, shipments, rateCalls>>

\* mutant of RetryFind: the payment status of the order is not tested
RetryFindUnguarded(s, dbOk) ==
  LET r == req[s] IN
  /\ r.pc = "retryFind"
  /\ req' = [req EXCEPT ![s] =
       IF ~dbOk THEN Finish(r, 500)
       ELSE IF ~Exists(r.oid) THEN Finish(r, 404)
       ELSE Goto(r, "retryCreateSession")]
  /\ UNCHANGED <<fixed, orders, origin, sessions, shipments, rateCalls, started>>

RetryFind(s, dbOk) ==
  LET r == req[s] IN
  /\ r.pc = "retryFind"
  /\ req' = [req EXCEPT ![s] =
       IF ~dbOk THEN Finish(r, 500)
       ELSE IF ~Exists(r.oid) THEN Finish(r, 404)
       ELSE IF orders[r.oid].paymentStatus # "failed" THEN Finish(r, 400)
       ELSE Goto(r, "retryCreateSession")]
  /\ UNCHANGED <<fixed, orders, origin, sessions, shipments, rateCalls, started>>

RetryCreateSession(s, apiOk) ==
  LET r == req[s] IN
  /\ r.pc = "retryCreateSession"
  /\ Len(sessions) < MaxSessions
  /\ IF ~apiOk
     THEN /\ req' = [req EXCEPT ![s] = Finish(r, 500)]
          /\ UNCHANGED sessions
     ELSE /\ sessions' = <<NewSession(r.oid)>> \o sessions
          /\ req' = [req EXCEPT ![s] = Goto(r, "retryUpdate")]
  /\ UNCHANGED <<fixed, orders, origin, shipments, rateCalls, started>>

RetryData(o) == [o EXCEPT !.paymentStatus = "pending", !.stale = FALSE]

RetryUpdate(s, dbOk) ==
  LET r == req[s] IN
  /\ r.pc = "retryUpdate"
  /\ IF ~dbOk \/ ~Exists(r.oid)
     THEN /\ req' = [req EXCEPT ![s] = Finish(r, 500)]
          /\ UNCHANGED orders
     ELSE /\ orders' = [orders EXCEPT ![r.oid] = RetryData(@)]
          /\ req' = [req EXCEPT ![s] = Finish(r, 200)]
  /\ UNCHANGED <<fixed, origin, sessions, shipments, rateCalls, started>>

\* ------------------------------------------------- verify-payment-status
\* What the session found for an order makes of that order: "paid",
\* "failed" or "none" (leave it)
SessionDecision(orderSession) ==
  IF orderSession.payment_status = "paid" THEN "paid"
  ELSE IF orderSession.payment_status = "unpaid" THEN "failed"
  ELSE "none"

ApplyDecision(o, dec) == IF dec = "paid" THEN PaidData(o) ELSE FailedData(o)

VerifyPaymentStatus(s, orderId) ==
  /\ Accept(s)
  /\ started' = started + 1
  /\ LET r0 == [IdleReq EXCEPT !.kind = "verify", !.oid = orderId] IN
     req' = [req EXCEPT ![s] =
       IF ~env.stripeKey THEN Finish(r0, 503)
       ELSE IF orderId = 0 THEN Finish(r0, 400)
       ELSE Goto(r0, "verifyFind")]
  /\ UNCHANGED <<fixed, orders, origin, sessions, shipments, rateCalls>>

\* mutant of VerifyFind: the age of the last update is not tested
VerifyFindEager(s, dbOk) ==
  LET r == req[s] IN
  /\ r.pc = "verifyFind"
  /\ req' = [req EXCEPT ![s] =
       IF ~dbOk THEN Finish(r, 500)
       ELSE IF ~Exists(r.oid) THEN Finish(r, 404)
       ELSE IF orders[r.oid].paymentStatus = "pending"
       THEN Goto(r, "verifyList")
       ELSE Finish(r, 200)]
  /\ UNCHANGED <<fixed, orders, origin, sessions, shipments, rateCalls, started>>

VerifyFind(s, dbOk) ==
  LET r == req[s] IN
  /\ r.pc = "verifyFind"
  /\ req' = [req EXCEPT ![s] =
       IF ~dbOk THEN Finish(r, 500)
       ELSE IF ~Exists(r.oid) THEN Finish(r, 404)
       ELSE IF orders[r.oid].paymentStatus = "pending" /\ orders[r.oid].stale
       THEN Goto(r, "verifyList")
       ELSE Finish(r, 200)]
  /\ UNCHANGED <<fixed, orders, origin, sessions, shipments, rateCalls, started>>

VerifyDecision(oid) ==
  LET orderSession == FindByOrder(ListSessions(VerifyListLimit), oid) IN
  IF orderSession = NoSession THEN "failed" ELSE SessionDecision(orderSession)

VerifyList(s, apiOk) ==
  LET r == req[s]
      dec == VerifyDecision(r.oid)
  IN
  /\ r.pc = "verifyList"
  /\ req' = [req EXCEPT ![s] =
       IF ~apiOk THEN Finish(r, 500)
       ELSE IF dec = "none" THEN Finish(r, 200)
       ELSE [r EXCEPT !.pc = "verifyUpdate", !.dec = dec]]
  /\ UNCHANGED <<fixed, orders, origin, sessions, shipments, rateCalls, started>>

VerifyUpdate(s, dbOk) ==
  LET r == req[s] IN
  /\ r.pc = "verifyUpdate"
  /\ IF ~dbOk \/ ~Exists(r.oid)
     THEN /\ req' = [req EXCEPT ![s] = Finish(r, 500)]
          /\ UNCHANGED orders
     ELSE /\ orders' = [orders EXCEPT ![r.oid] = ApplyDecision(@, r.dec)]
          /\ req' = [req EXCEPT ![s] = Finish([r EXCEPT !.fixed = TRUE], 200)]
  /\ UNCHANGED <<fixed, origin, sessions, shipments, rateCalls, started>>

\* ------------------------------------------- fix-payment-status (the sweep)
\* prisma.order.findMany({ where: { paymentStatus: 'pending' },
\*                         orderBy: { createdAt: 'desc' } }): ids, newest first
RECURSIVE PendingFrom(_)
PendingFrom(n) ==
  IF n = 0 THEN <<>>
  ELSE IF orders[n].paymentStatus = "pending"
       THEN <<n>> \o PendingFrom(n - 1)
       ELSE PendingFrom(n - 1)

PendingOrders == PendingFrom(Len(orders))

\* mutant of SweepDecision: an order whose session is unpaid is left pending
SweepDecisionKeepsUnpaid(oid) ==
  LET orderSession == FindByOrder(ListSessions(SweepListLimit), oid) IN
  IF orderSession = NoSession
  THEN IF Exists(oid) /\ orders[oid].old THEN "failed" ELSE "none"
  ELSE IF orderSession.payment_status = "paid" THEN "paid" ELSE "none"

SweepDecision(oid) ==
  LET orderSession == FindByOrder(ListSessions(SweepListLimit), oid) IN
  IF orderSession = NoSession
  THEN IF Exists(oid) /\ orders[oid].old THEN "failed" ELSE "none"
  ELSE SessionDecision(orderSession)

\* mutant of Count: an order marked failed is counted as left pending
CountFailedAsUnresolved(c, dec) ==
  IF dec = "paid" THEN [c EXCEPT !.fixedCount = @ + 1]
  ELSE [c EXCEPT !.noSessionCount = @ + 1]

\* fixedCount++, failedCount++ or noSessionCount++
Count(c, dec) ==
  IF dec = "paid" THEN [c EXCEPT !.fixedCount = @ + 1]
  ELSE IF dec = "failed" THEN [c EXCEPT !.failedCount = @ + 1]
  ELSE [c EXCEPT !.noSessionCount = @ + 1]

\* the end of one iteration of the loop: the next order, or the response
SweepAdvance(r, dec) ==
  LET r1 == [r EXCEPT !.counts = Count(@, dec), !.list = Tail(@),
                      !.dec = "none"]
  IN IF r1.list = <<>> THEN Finish(r1, 200) ELSE Goto(r1, "sweepList")

\* the handler up to its first await
SweepEntry ==
  LET r0 == [IdleReq EXCEPT !.kind = "sweep"] IN
  IF ~env.stripeKey THEN Finish(r0, 503) ELSE Goto(r0, "sweepScan")

FixPaymentStatus(s) ==
  /\ Accept(s)
  /\ started' = started + 1
  /\ req' = [req EXCEPT ![s] = SweepEntry]
  /\ UNCHANGED <<fixed, orders, origin, sessions, shipments, rateCalls>>

SweepScan(s, dbOk) ==
  LET r == req[s] IN
  /\ r.pc = "sweepScan"
  /\ req' = [req EXCEPT ![s] =
       IF ~dbOk THEN Finish(r, 500)
       ELSE IF PendingOrders = <<>> THEN Finish(r, 200)
       ELSE [r EXCEPT !.pc = "sweepList", !.list = PendingOrders,
                      !.counts.totalProcessed = Len(PendingOrders)]]
  /\ UNCHANGED <<fixed, orders, origin, sessions, shipments, rateCalls, started>>

SweepList(s, apiOk) ==
  LET r == req[s]
      dec == SweepDecision(Head(r.list))
  IN
  /\ r.pc = "sweepList"
  /\ req' = [req EXCEPT ![s] =
       IF ~apiOk \/ dec = "none" THEN SweepAdvance(r, "none")
       ELSE [r EXCEPT !.pc = "sweepUpdate", !.dec = dec]]
  /\ UNCHANGED <<fixed, orders, origin, sessions, shipments, rateCalls, started>>

\* mutant of SweepUpdate: a throwing update ends the sweep
SweepUpdateAborts(s, dbOk) ==
  LET r == req[s]
      oid == Head(r.list)
  IN
  /\ r.pc = "sweepUpdate"
  /\ IF ~dbOk \/ ~Exists(oid)
     THEN /\ req' = [req EXCEPT ![s] = Finish(r, 500)]
          /\ UNCHANGED orders
     ELSE /\ orders' = [orders EXCEPT ![oid] = ApplyDecision(@, r.dec)]
          /\ req' = [req EXCEPT ![s] = SweepAdvance(r, r.dec)]
  /\ UNCHANGED <<fixed, origin, sessions, shipments, rateCalls, started>>

SweepUpdate(s, dbOk) ==
  LET r == req[s]
      oid == Head(r.list)
  IN
  /\ r.pc = "sweepUpdate"
  /\ IF ~dbOk \/ ~Exists(oid)
     THEN /\ req' = [req EXCEPT ![s] = SweepAdvance(r, "none")]
          /\ UNCHANGED orders
     ELSE /\ orders' = [orders EXCEPT ![oid] = ApplyDecision(@, r.dec)]
          /\ req' = [req EXCEPT ![s] = SweepAdvance(r, r.dec)]
  /\ UNCHANGED <<fixed, origin, sessions, shipments, rateCalls, started>>

\* ------------------------------------------------------- the environment
\* the customer completes a checkout: the session becomes paid
SessionPaid(i, pi) ==
  /\ i \in DOMAIN sessions
  /\ sessions[i].payment_status = "unpaid"
  /\ sessions' = [sessions EXCEPT ![i].payment_status = "paid",
                                  ![i].payment_intent = pi]
  /\ UNCHANGED <<fixed, orders, origin, shipments, rateCalls, req, started>>

\* time passes: an order's creation falls more than 24 hours back, or its
\* last update more than one hour back.  Only a pending order's age is ever
\* read, and every update that makes an order pending resets updatedAt, so
\* the flags are tracked while the order is pending.
OrderAges(o, f) ==
  /\ Exists(o)
  /\ orders[o].paymentStatus = "pending"
  /\ f \in {"old", "stale"}
  /\ ~orders[o][f]
  /\ orders' = [orders EXCEPT ![o][f] = TRUE]
  /\ UNCHANGED <<fixed, origin, sessions, shipments, rateCalls, req, started>>

\* ------------------------------------------------------------ initial state
\* an order created before payment by the checkout of a signed-in user
EagerOrder(status, ps, addr, ship) ==
  [userId |-> "A", status |-> status, paymentStatus |-> ps, total |-> 1000,
   shippingAddress |-> addr, shipmentId |-> ship, orderItems |-> "checkout",
   old |-> FALSE, stale |-> FALSE]

InitLedgers ==
  {<<>>}
  \cup {<<EagerOrder("pending_payment", ps, addr, 0)>> :
          ps \in {"pending", "failed"}, addr \in {WholeAddr("order"), NoAddr}}
  \cup {<<EagerOrder("confirmed", "paid", WholeAddr("order"), ship)>> :
          ship \in {0, 1}}

InitSessions ==
  {<<>>}
  \cup {<<[NoSession EXCEPT !.orderId = 1, !.payment_intent = "pi_1",
                             !.payment_status = "paid"]>>,
        <<[NoSession EXCEPT !.orderId = 1, !.payment_status = "unpaid"]>>,
        <<[NoSession EXCEPT !.orderId = 1,
                            !.payment_status = "no_payment_required"]>>,
        <<[NoSession EXCEPT !.payment_intent = "pi_2",
                            !.payment_status = "paid"]>>}

InitShipments(ledger) ==
  IF ledger # <<>> /\ ledger[1].shipmentId = 1
  THEN <<[orderId |-> 1, rate |-> "rateA"]>>
  ELSE <<>>

NoRedelivery == [handler |-> "-", event |-> NoEvent]

InitWith(envs, ledgers, sess, redeliveries) ==
  /\ env \in envs
  /\ orders \in ledgers
  /\ origin = [i \in DOMAIN orders |-> NoEvent]
  /\ sessions \in sess
  /\ shipments = InitShipments(orders)
  /\ rateCalls = [o \in 1..MaxOrders |-> 0]
  /\ req = [s \in Slots |-> IdleReq]
  /\ started = 0
  /\ redelivery \in redeliveries

Envs == [stripeKey : BOOLEAN, webhookSecret : BOOLEAN]

Init == InitWith(Envs, InitLedgers, InitSessions, {NoRedelivery})

\* --------------------------------------------------------------- next state
Signatures == {"missing", "bad", "good"}
ShipmentOutcomes == {"created", "unpersisted", "failed"}

\* one event of each shape the handlers tell apart
CoreEvents ==
  {e \in CompletedExisting :
     /\ e.orderId = 1
     /\ e.amount_total \in {0, 2500}
     /\ e.customer_details = "none"}
  \cup {e \in CompletedExisting :
          /\ e.orderId = 2 /\ e.amount_total = 0
          /\ ~e.shipping_details /\ e.customer_details = "none"}
  \cup {e \in CompletedDeferred :
          /\ e.orderData = "ok" /\ e.metaAddress /\ ~e.shipping
          /\ e.authenticatedUserId = "A" /\ e.customer_details = "b@mail"}
  \cup {e \in PaymentFailed : e.orderId = 1}
  \cup {e \in ChargeUpdated : e.payment_intent = "pi_1" /\ e.chargeOk}
  \cup OtherEvents

\* who a request may come from: a user, nobody, or a user whose row is gone
Credentials == Users \cup {NoUser, "ghost"}

\* Serialized order data around the limit, without and with a two-byte
\* character in it
DataStrings ==
  {[ascii |-> a, wide |-> w] : a \in {499, 500, 501}, w \in {0, 1}}

CheckoutBodies ==
  {b \in [items : BOOLEAN, orderId : 0..1,
          orderData : {"none", "ok", "malformed"},
          dataString : DataStrings \cup {NoString},
          userId : {NoUser, "B"}] :
     (b.orderData = "ok") <=> (b.dataString # NoString)}

\* one body of each shape the handlers tell apart
CoreBodies ==
  {b \in CheckoutBodies :
     /\ b.userId = NoUser
     /\ \/ ~b.items /\ b.orderId = 0 /\ b.orderData = "none"
        \/ b.items /\ b.orderId = 1 /\ b.orderData = "none"
        \/ /\ b.items /\ b.orderId = 0 /\ b.orderData = "ok"
           /\ b.dataString = [ascii |-> 499, wide |-> 0]}

\* oks: the answers of the ledger and of the processor API that may occur
\* (TRUE: the call succeeds, FALSE: it throws)
WebhookStep(s, oks) ==
  \/ \E dbOk \in oks : OrderFindExisting(s, dbOk)
  \/ \E dbOk \in oks : OrderUpdateExisting(s, dbOk)
  \/ \E dbOk \in oks : PaymentsUpdateExisting(s, dbOk)
  \/ \E dbOk \in oks : PaymentsFindUpdated(s, dbOk)
  \/ \E dbOk \in oks : OrderFindUserByEmail(s, dbOk)
  \/ \E dbOk \in oks : PaymentsFindUserById(s, dbOk)
  \/ \E dbOk \in oks : CreateOrder(s, dbOk)
  \/ \E dbOk \in oks : OrderPaymentFailed(s, dbOk)
  \/ \E apiOk \in oks : ChargeListSessions(s, apiOk)
  \/ \E dbOk \in oks : ChargeUpdate(s, dbOk)
  \/ \E ok \in BOOLEAN, rates \in RateLists : GetRates(s, ok, rates)
  \/ \E outcome \in ShipmentOutcomes : CreateShipment(s, outcome)

CheckoutStep(s) ==
  \/ \E dbOk \in BOOLEAN : CheckoutFindUser(s, dbOk)
  \/ \E apiOk \in BOOLEAN : CheckoutCreate(s, apiOk)

RetryStep(s) ==
  \/ \E dbOk \in BOOLEAN : RetryFind(s, dbOk)
  \/ \E apiOk \in BOOLEAN : RetryCreateSession(s, apiOk)
  \/ \E dbOk \in BOOLEAN : RetryUpdate(s, dbOk)

VerifyStep(s) ==
  \/ \E dbOk \in BOOLEAN : VerifyFind(s, dbOk)
  \/ \E apiOk \in BOOLEAN : VerifyList(s, apiOk)
  \/ \E dbOk \in BOOLEAN : VerifyUpdate(s, dbOk)

SweepStep(s) ==
  \/ \E dbOk \in BOOLEAN : SweepScan(s, dbOk)
  \/ \E apiOk \in BOOLEAN : SweepList(s, apiOk)
  \/ \E dbOk \in BOOLEAN : SweepUpdate(s, dbOk)

Environment ==
  \/ \E i \in 1..MaxSessions, pi \in PaymentIntents : SessionPaid(i, pi)
  \/ \E o \in 1..MaxOrders, f \in {"old", "stale"} : OrderAges(o, f)

Next ==
  \/ \E s \in Slots, h \in Handlers, sig \in Signatures, e \in CoreEvents :
       Webhook(s, h, sig, e)
  \/ \E s \in Slots, h \in Handlers, auth \in {"A", NoUser}, body \in CoreBodies :
       CreateCheckoutSession(s, h, auth, body)
  \/ \E s \in Slots, o \in 0..MaxOrders : RetryPayment(s, o)
  \/ \E s \in Slots, o \in 0..MaxOrders : VerifyPaymentStatus(s, o)
  \/ \E s \in Slots : FixPaymentStatus(s)
  \/ \E s \in Slots :
       \/ WebhookStep(s, BOOLEAN) \/ CheckoutStep(s) \/ RetryStep(s)
       \/ VerifyStep(s) \/ SweepStep(s)
  \/ Environment

Spec == Init /\ [][Next]_vars

\* ------------------------------------------------------ replay scenarios
\* The processor delivers one verified event to one endpoint again and
\* again; nothing else runs, and the ledger and the processor API answer
\* every call (the shipping provider may still fail).
Configured == {[stripeKey |-> TRUE, webhookSecret |-> TRUE]}
Redeliveries == [handler : Handlers, event : Events]
ReplaySessions == {x \in InitSessions : x = <<>> \/ x[1].payment_intent = "pi_1"}

ReplayInit == InitWith(Configured, InitLedgers, ReplaySessions, Redeliveries)

\* the next delivery starts after the previous one was answered
Redeliver(s) ==
  /\ \A t \in Slots : Free(t)
  /\ Webhook(s, redelivery.handler, "good", redelivery.event)

ReplayNext ==
  \/ \E s \in Slots : Redeliver(s)
  \/ \E s \in Slots : WebhookStep(s, {TRUE})

SpecReplay == ReplayInit /\ [][ReplayNext]_vars

\* deliveries of the one event overlap
RaceLedgers ==
  {l \in InitLedgers :
     l = <<>> \/ (l[1].shippingAddress # NoAddr /\ l[1].shipmentId = 0)}

RaceInit == InitWith(Configured, RaceLedgers, ReplaySessions, Redeliveries)

RedeliverConcurrently(s) ==
  Webhook(s, redelivery.handler, "good", redelivery.event)

RaceNext ==
  \/ \E s \in Slots : RedeliverConcurrently(s)
  \/ \E s \in Slots : WebhookStep(s, {TRUE})

SpecRace == RaceInit /\ [][RaceNext]_vars

\* the replay scenario on a ledger whose one order awaits its payment
PendingLedgers ==
  {l \in InitLedgers : l # <<>> /\ l[1].paymentStatus = "pending"}

ReplayPendingInit ==
  InitWith(Configured, PendingLedgers, ReplaySessions, Redeliveries)

SpecReplayPending == ReplayPendingInit /\ [][ReplayNext]_vars

\* ------------------------------------------------------ arrival scenario
\* One order awaits its payment.  The processor delivers a session-completed
\* event and the charge.updated event of the order's payment once each, in
\* either order, to one endpoint, and the two handlers interleave.  The
\* shipping provider gives every rate lookup the same answer and every
\* createShipment the same outcome; the ledger and the processor API answer
\* every call.
ArrivalEvents ==
  {e \in CompletedExisting : e.orderId = 1}
  \cup {e \in CompletedDeferred :
          /\ e.orderData = "ok" /\ e.metaAddress /\ ~e.shipping
          /\ e.authenticatedUserId = "A" /\ e.customer_details = "a@mail"}

Arrivals ==
  [handler : Handlers,
   event : ArrivalEvents,
   charge : {e \in ChargeUpdated : e.payment_intent = "pi_1" /\ e.chargeOk},
   first : {"completed", "charge"},
   rates : RateLists,
   outcome : ShipmentOutcomes,
   before : PendingLedgers]

ArrivalInit ==
  /\ InitWith(Configured, PendingLedgers, ReplaySessions, Arrivals)
  /\ redelivery.before = orders

Arrive(s) ==
  LET e == IF (started = 0) = (redelivery.first = "completed")
           THEN redelivery.event ELSE redelivery.charge
  IN Webhook(s, redelivery.handler, "good", e)

ArrivalNext ==
  \/ \E s \in Slots : Arrive(s)
  \/ \E s \in Slots : OrderFindExisting(s, TRUE)
  \/ \E s \in Slots : OrderUpdateExisting(s, TRUE)
  \/ \E s \in Slots : PaymentsUpdateExisting(s, TRUE)
  \/ \E s \in Slots : PaymentsFindUpdated(s, TRUE)
  \/ \E s \in Slots : OrderFindUserByEmail(s, TRUE)
  \/ \E s \in Slots : PaymentsFindUserById(s, TRUE)
  \/ \E s \in Slots : CreateOrder(s, TRUE)
  \/ \E s \in Slots : ChargeListSessions(s, TRUE)
  \/ \E s \in Slots : ChargeUpdate(s, TRUE)
  \/ \E s \in Slots : GetRates(s, TRUE, redelivery.rates)
  \/ \E s \in Slots : CreateShipment(s, redelivery.outcome)

SpecArrival == ArrivalInit /\ [][ArrivalNext]_vars

\* ------------------------------------------- after a deferred creation
\* The ledger holds one order that a webhook delivery created from a
\* deferred payload; its trigger created no shipment.  Further deferred
\* events and payment-failed events for that order are delivered, and the
\* customer retries its payment.
Materialized(h, e) ==
  IF h = "order"
  THEN NewOrder(OrderOwner(e), e, OrderDeferredAddress(e))
  ELSE NewOrder(PaymentsOwner(e), e, PaymentsDeferredAddress(e))

Materializable ==
  {c \in [handler : Handlers, event : CompletedDeferred] :
     /\ c.event.orderData = "ok"
     /\ Materialized(c.handler, c.event).userId # NoUser
     /\ Materialized(c.handler, c.event).shippingAddress # NoAddr
     /\ IF c.handler = "order"
        THEN c.event.customer_details # "none" /\ c.event.metaAddress
        ELSE c.event.authenticatedUserId # NoUser}

CreatedInit ==
  /\ env \in Configured
  /\ \E c \in Materializable :
       /\ orders = <<Materialized(c.handler, c.event)>>
       /\ origin = <<c.event>>
  /\ sessions \in {x \in InitSessions : x = <<>> \/ x[1].orderId = 0}
  /\ shipments = <<>>
  /\ rateCalls = [o \in 1..MaxOrders |-> 0]
  /\ req = [s \in Slots |-> IdleReq]
  /\ started = 0
  /\ redelivery = NoRedelivery

CreatedEvents ==
  {e \in CoreEvents : e \in CompletedDeferred}
  \cup {e \in PaymentFailed : e.orderId = 1}

CreatedNext ==
  \/ \E s \in Slots, h \in Handlers, e \in CreatedEvents :
       Webhook(s, h, "good", e)
  \/ \E s \in Slots : OrderFindUserByEmail(s, TRUE)
  \/ \E s \in Slots : PaymentsFindUserById(s, TRUE)
  \/ \E s \in Slots : CreateOrder(s, TRUE)
  \/ \E s \in Slots, ok \in BOOLEAN, rates \in RateLists : GetRates(s, ok, rates)
  \/ \E s \in Slots, outcome \in ShipmentOutcomes : CreateShipment(s, outcome)
  \/ \E s \in Slots : OrderPaymentFailed(s, TRUE)
  \/ \E s \in Slots : RetryPayment(s, 1)
  \/ \E s \in Slots : RetryFind(s, TRUE)
  \/ \E s \in Slots : RetryCreateSession(s, TRUE)
  \/ \E s \in Slots : RetryUpdate(s, TRUE)

SpecCreated == CreatedInit /\ [][CreatedNext]_vars

\* ----------------------------------------------------- address scenario
\* One deferred checkout of user A is paid and its event delivered, once or
\* again, to one endpoint: the session's shipping object, the billing
\* address of its customer details and the address in its metadata are each
\* absent, incomplete or complete.
AddressEvents ==
  {[e EXCEPT !.shippingComplete = sc, !.billingComplete = bc,
             !.metaComplete = mc] :
     e \in {d \in CompletedDeferred :
              /\ d.orderData = "ok" /\ d.authenticatedUserId = "A"
              /\ d.customer_details \in {"none", "a@mail"}},
     sc \in BOOLEAN, bc \in BOOLEAN, mc \in BOOLEAN}

AddressInit ==
  /\ InitWith(Configured, {<<>>}, {<<>>},
              [handler : Handlers, event : AddressEvents])
  /\ redelivery.event.shippingComplete => redelivery.event.shipping
  /\ redelivery.event.billingComplete =>
       redelivery.event.customer_details # "none"
  /\ redelivery.event.metaComplete => redelivery.event.metaAddress

AddressNext ==
  \/ \E s \in Slots : Redeliver(s)
  \/ \E s \in Slots : OrderFindUserByEmail(s, TRUE)
  \/ \E s \in Slots : PaymentsFindUserById(s, TRUE)
  \/ \E s \in Slots : CreateOrder(s, TRUE)
  \/ \E s \in Slots, rates \in RateLists : GetRates(s, TRUE, rates)
  \/ \E s \in Slots : CreateShipment(s, "created")

SpecAddress == AddressInit /\ [][AddressNext]_vars

\* ------------------------------------------------------- sweep scenario
\* Sweeps run one after the other over a ledger of SweepOrders orders, each
\* pending (young or older than 24 hours) or paid; nothing else runs.  Each
\* order has at most one session at the processor; in a buried list the
\* session of order 1 lies behind SweepListLimit more recent sessions of
\* other customers.  redelivery records the ledger before the first sweep
\* and whether the ledger and the processor answer every call.
SweptOrder(ps, old) ==
  [EagerOrder(IF ps = "paid" THEN "confirmed" ELSE "pending_payment", ps,
              WholeAddr("order"), 0) EXCEPT !.old = old]

SweptOrders ==
  {SweptOrder("pending", FALSE), SweptOrder("pending", TRUE),
   SweptOrder("paid", FALSE)}

SweepLedgers == [1..SweepOrders -> SweptOrders]

SessionStatuses == {"paid", "unpaid", "no_payment_required"}

\* the sessions of the orders 1..n, the one of order n being the most recent
RECURSIVE SessionsFor(_, _)
SessionsFor(f, n) ==
  IF n = 0 THEN <<>>
  ELSE (IF f[n] = "none" THEN <<>>
        ELSE <<[NoSession EXCEPT !.orderId = n, !.payment_status = f[n]]>>)
       \o SessionsFor(f, n - 1)

Unrelated(k) ==
  [i \in 1..k |-> [NoSession EXCEPT !.payment_intent = "pi_2",
                                    !.payment_status = "paid"]]

SweepSessions ==
  {SessionsFor(f, SweepOrders) :
     f \in [1..SweepOrders -> SessionStatuses \cup {"none"}]}
  \cup {Unrelated(SweepListLimit)
          \o <<[NoSession EXCEPT !.orderId = 1, !.payment_status = st]>> :
          st \in {"paid", "unpaid"}}

Sweeps == [before : SweepLedgers, oks : {{TRUE}, BOOLEAN}]

SweepInit ==
  /\ InitWith(Configured, SweepLedgers, SweepSessions, Sweeps)
  /\ redelivery.before = orders

StartSweep(s) ==
  /\ \A t \in Slots : Free(t)
  /\ FixPaymentStatus(s)

SweepNext ==
  \/ \E s \in Slots : StartSweep(s)
  \/ \E s \in Slots, dbOk \in redelivery.oks : SweepScan(s, dbOk)
  \/ \E s \in Slots, apiOk \in redelivery.oks : SweepList(s, apiOk)
  \/ \E s \in Slots, dbOk \in redelivery.oks : SweepUpdate(s, dbOk)

SpecSweep == SweepInit /\ [][SweepNext]_vars

\* The sweep is run again and again, the ledger and the processor answer
\* every call, time passes and customers pay.
SweepLiveInit == SweepInit /\ redelivery.oks = {TRUE}

\* the next run starts when the previous one was answered
Resweep(s) ==
  /\ \A t \in Slots : Free(t)
  /\ s = SlotOrder[1]
  /\ req' = [req EXCEPT ![s] = SweepEntry]
  /\ UNCHANGED <<fixed, orders, origin, sessions, shipments, rateCalls, started>>

SweepRun ==
  \/ \E s \in Slots : Resweep(s)
  \/ \E s \in Slots : SweepScan(s, TRUE)
  \/ \E s \in Slots : SweepList(s, TRUE)
  \/ \E s \in Slots : SweepUpdate(s, TRUE)

TimePasses == \E o \in 1..SweepOrders : OrderAges(o, "old")

CustomerPays == \E i \in 1..(SweepListLimit + 1) : SessionPaid(i, "pi_1")

SweepLiveNext == SweepRun \/ TimePasses \/ CustomerPays

SpecSweepLive ==
  /\ SweepLiveInit
  /\ [][SweepLiveNext]_vars
  /\ WF_vars(SweepRun)
  /\ WF_vars(TimePasses)

\* ---------------------------------------------------- checkout scenario
\* Customers start checkouts, one after the other, and abandon them:
\* sessions are requested at either endpoint, with any credentials and any
\* body, and no payment event is ever delivered.
CheckoutEnvs == {e \in Envs : e.webhookSecret}

CheckoutInit == InitWith(CheckoutEnvs, PendingLedgers, {<<>>}, {NoRedelivery})

StartCheckout(s, h, auth, body) ==
  /\ \A t \in Slots : Free(t)
  /\ CreateCheckoutSession(s, h, auth, body)

CheckoutNext ==
  \/ \E s \in Slots, h \in Handlers, auth \in Credentials,
        body \in CheckoutBodies : StartCheckout(s, h, auth, body)
  \/ \E s \in Slots, dbOk \in BOOLEAN : CheckoutFindUser(s, dbOk)
  \/ \E s \in Slots, apiOk \in BOOLEAN : CheckoutCreate(s, apiOk)

SpecCheckout == CheckoutInit /\ [][CheckoutNext]_vars

\* -------------------------------------------------------- retry scenario
\* Requests are served one after the other: customers retry the payment of
\* an order, known or unknown, and the processor reports failed payments of
\* order 1.  The ledger and the processor may fail any call of a retry.
RetryInit == InitWith(Envs, InitLedgers, {<<>>}, {NoRedelivery})

StartRetry(s, orderId) ==
  /\ \A t \in Slots : Free(t)
  /\ RetryPayment(s, orderId)

PaymentFails(s) ==
  /\ \A t \in Slots : Free(t)
  /\ \E e \in PaymentFailed : e.orderId = 1 /\ Webhook(s, "order", "good", e)

RetryNext ==
  \/ \E s \in Slots, o \in 0..MaxOrders : StartRetry(s, o)
  \/ \E s \in Slots : PaymentFails(s)
  \/ \E s \in Slots : OrderPaymentFailed(s, TRUE)
  \/ \E s \in Slots : RetryStep(s)

SpecRetry == RetryInit /\ [][RetryNext]_vars

\* ------------------------------------------------------- verify scenario
\* Requests are served one after the other: the payment status of an order,
\* known or unknown, is verified while time passes.  The ledger and the
\* processor may fail any call.
VerifyInit == InitWith(Envs, InitLedgers, InitSessions, {NoRedelivery})

StartVerify(s, orderId) ==
  /\ \A t \in Slots : Free(t)
  /\ VerifyPaymentStatus(s, orderId)

VerifyNext ==
  \/ \E s \in Slots, o \in 0..MaxOrders : StartVerify(s, o)
  \/ \E s \in Slots : VerifyStep(s)
  \/ \E o \in 1..MaxOrders : OrderAges(o, "stale")

SpecVerify == VerifyInit /\ [][VerifyNext]_vars

\* --------------------------------------------------------- twin scenario
\* The two webhook handlers side by side: the ledger holds two copies of one
\* order, or is empty.  One verified event is delivered to the handler of
\* order.routes.ts, naming copy 1, and then to the handler of
\* payments.routes.ts, naming copy 2.  The ledger and the processor answer
\* every call, and the shipping provider gives both the same answers.
TwinEvents ==
  {e \in CompletedExisting : e.orderId = 1}
  \cup {e \in PaymentFailed : e.orderId = 1}
  \cup {e \in CompletedDeferred : e.orderData = "ok"}

Twins == [event : TwinEvents, rates : RateLists, outcome : ShipmentOutcomes]

TwinLedgers ==
  {<<>>} \cup {<<l[1], l[1]>> : l \in RaceLedgers \ {<<>>}}

TwinInit ==
  /\ InitWith(Configured, TwinLedgers, {<<>>}, Twins)
  /\ (orders = <<>>) <=> (redelivery.event \in CompletedDeferred)

\* the event, naming copy o when it names an order
TwinEvent(e, o) == IF e.orderId = 0 THEN e ELSE [e EXCEPT !.orderId = o]

DeliverTwin(s) ==
  /\ \A t \in Slots : Free(t)
  /\ IF started = 0
     THEN Webhook(s, "order", "good", TwinEvent(redelivery.event, 1))
     ELSE Webhook(s, "payments", "good", TwinEvent(redelivery.event, 2))

TwinNext ==
  \/ \E s \in Slots : DeliverTwin(s)
  \/ \E s \in Slots : OrderFindExisting(s, TRUE)
  \/ \E s \in Slots : OrderUpdateExisting(s, TRUE)
  \/ \E s \in Slots : PaymentsUpdateExisting(s, TRUE)
  \/ \E s \in Slots : PaymentsFindUpdated(s, TRUE)
  \/ \E s \in Slots : OrderFindUserByEmail(s, TRUE)
  \/ \E s \in Slots : PaymentsFindUserById(s, TRUE)
  \/ \E s \in Slots : CreateOrder(s, TRUE)
  \/ \E s \in Slots : OrderPaymentFailed(s, TRUE)
  \/ \E s \in Slots : GetRates(s, TRUE, redelivery.rates)
  \/ \E s \in Slots : CreateShipment(s, redelivery.outcome)

SpecTwin == TwinInit /\ [][TwinNext]_vars

\* ================================================================ claims
ShipmentsOf(o) == {i \in DOMAIN shipments : shipments[i].orderId = o}
CreatedFrom(e) == {o \in DOMAIN orders : origin[o] = e}
AllAnswered == \A s \in Slots : Free(s)

\* C1 (SpecReplayPending): the same verified session-completed event for an
\* existing pending order, delivered twice in sequence, confirms the order
\* and invokes the shipment trigger (the rate lookup) exactly once over the
\* two deliveries.
ReplayTriggersOnce ==
  LET e == redelivery.event IN
  ( /\ e \in CompletedExisting
    /\ e.orderId = 1
    /\ started = 2
    /\ AllAnswered
    /\ orders[1].paymentStatus = "paid"
    /\ orders[1].shippingAddress # NoAddr )
  => rateCalls[1] = 1 /\ Cardinality(ShipmentsOf(1)) <= 1

\* C2 (SpecRace): however often and however interleaved one deferred
\* session-completed event is delivered, exactly one order is created from
\* it: never two, and one once a delivery was answered 200.
DeferredCreatedOnce ==
  LET e == redelivery.event IN
  e \in CompletedDeferred =>
    /\ Cardinality(CreatedFrom(e)) <= 1
    /\ (\E s \in Slots : req[s].pc = "done" /\ req[s].resp = 200)
         => Cardinality(CreatedFrom(e)) = 1

\* C3 (Spec): in every reachable ledger, an order whose paymentStatus is
\* paid has lifecycle status confirmed.
PaidImpliesConfirmed ==
  \A o \in DOMAIN orders :
    orders[o].paymentStatus = "paid" => orders[o].status = "confirmed"

\* C3 witness: the sweep has marked an order paid
SweepFixedAnOrder ==
  \E s \in Slots, o \in DOMAIN orders :
    /\ req[s].kind = "sweep" /\ req[s].pc = "done"
    /\ req[s].counts.fixedCount = 1
    /\ orders[o].paymentStatus = "paid"

\* C4 (SpecReplay): once an order is paid, no step of a webhook delivery
\* changes its paymentStatus or its lifecycle status.
WebhookKeepsPaid ==
  [][\A o \in DOMAIN orders :
       orders[o].paymentStatus = "paid" =>
         /\ orders'[o].paymentStatus = "paid"
         /\ orders'[o].status = orders[o].status]_vars

\* C5 (SpecReplay): a session-completed delivery for an order that is
\* already paid leaves its fields other than the timestamps unchanged, its
\* total and its shipping address in particular.
Payload(o) ==
  [userId |-> o.userId, status |-> o.status, paymentStatus |-> o.paymentStatus,
   total |-> o.total, shippingAddress |-> o.shippingAddress,
   orderItems |-> o.orderItems]

CompletedOnPaidIsNoOp ==
  [][\A o \in DOMAIN orders :
       ( /\ redelivery.event \in CompletedExisting
         /\ redelivery.event.orderId = o
         /\ orders[o].paymentStatus = "paid" )
       => Payload(orders'[o]) = Payload(orders[o])]_vars

\* C6 (SpecReplay): while reconciling a session-completed event for an
\* existing order, no rate lookup and no createShipment is made for an
\* order whose shipmentId is already set.
NoTriggerWhenShipped ==
  [][\A o \in DOMAIN orders :
       ( /\ redelivery.event \in CompletedExisting
         /\ orders[o].shipmentId # 0 )
       => /\ rateCalls'[o] = rateCalls[o]
          /\ ShipmentsOf(o)' = ShipmentsOf(o)]_vars

\* C7 (SpecRace): two overlapping deliveries of one session-completed event
\* for one existing order create at most one shipment for it.
RaceCreatesOneShipment ==
  redelivery.event \in CompletedExisting =>
    \A o \in DOMAIN orders :
      orders[o].paymentStatus = "paid" => Cardinality(ShipmentsOf(o)) <= 1

\* C8 (Spec): once an order's shipmentId holds a value, no step replaces or
\* clears it.
ShipmentIdSetOnce ==
  [][\A o \in DOMAIN orders :
       orders[o].shipmentId # 0 =>
         orders'[o].shipmentId = orders[o].shipmentId]_vars

\* C9 (SpecReplay): an order created from a deferred event whose metadata
\* names a user is owned by that user, whatever e-mail the processor reports.
OwnerIsAuthenticatedUser ==
  \A o \in DOMAIN orders :
    origin[o].authenticatedUserId \in Users =>
      orders[o].userId = origin[o].authenticatedUserId

\* C10 as claimed (Spec): a webhook request without signature header, without
\* configured webhook secret or with a signature that does not verify is
\* answered 400.
Unverifiable(r) ==
  r.kind = "webhook" /\ (r.sig \in {"missing", "bad"} \/ ~env.webhookSecret)

RejectedWith400 ==
  \A s \in Slots :
    Unverifiable(req[s]) => req[s].pc = "done" /\ req[s].resp = 400

\* C10 as amended (Spec): such a request is answered at once, with 400, or
\* with 503 when the Stripe client itself is not configured; it never counts
\* as verified; and a step of a webhook request changes the ledger or the
\* shipping provider's state only if that request's event was verified.
Ledger == <<orders, origin, shipments, rateCalls>>

FailsClosed ==
  /\ [](\A s \in Slots :
          Unverifiable(req[s]) =>
            /\ req[s].pc = "done"
            /\ ~req[s].verified
            /\ req[s].resp = IF env.stripeKey THEN 400 ELSE 503)
  /\ [][\A s \in Slots :
          (req'[s] # req[s] /\ req'[s].kind = "webhook" /\ Ledger' # Ledger)
          => req[s].kind = "webhook" /\ req[s].verified]_vars

\* C10 witness: a request whose signature does not verify was answered 400
BadSignatureRejected ==
  \E s \in Slots :
    /\ req[s].kind = "webhook" /\ req[s].sig = "bad"
    /\ req[s].pc = "done" /\ req[s].resp = 400

\* the request in slot s is answered in this step
Answered(s) == req'[s] # req[s] /\ req'[s].pc = "done"

\* C11 (SpecReplay): a verified session-completed event that names an order
\* id the ledger does not hold is answered 404, and no step of its delivery
\* creates or changes an order, looks up rates or creates a shipment.
MissingOrderIs404 ==
  [][( /\ redelivery.event \in CompletedExisting
       /\ ~Exists(redelivery.event.orderId) )
     => /\ Ledger' = Ledger
        /\ \A s \in Slots : Answered(s) => req'[s].resp = 404]_vars

\* an order without its timestamps' ages
Untimed(o) == [o EXCEPT !.old = FALSE, !.stale = FALSE]

\* C12 (SpecReplay): no step of a delivery of a payment-failed event
\* creates an order or touches the shipping provider; the only order it may
\* change is the one the event names, and of that order only paymentStatus,
\* to failed, and the timestamp; the handler of order.routes.ts has marked
\* the named order failed when it answers; an event without order id changes
\* nothing; every delivery is answered 200.
PaymentFailedFrame ==
  [][redelivery.event \in PaymentFailed =>
       LET id == redelivery.event.orderId IN
       /\ <<origin, shipments, rateCalls>>' = <<origin, shipments, rateCalls>>
       /\ DOMAIN orders' = DOMAIN orders
       /\ \A o \in DOMAIN orders :
            /\ orders'[o] # orders[o] =>
                  o = id /\ orders'[o].paymentStatus = "failed"
            /\ Untimed([orders'[o] EXCEPT !.paymentStatus = "-"])
                 = Untimed([orders[o] EXCEPT !.paymentStatus = "-"])
       /\ \A s \in Slots :
            Answered(s) =>
              /\ req'[s].resp = 200
              /\ (redelivery.handler = "order" /\ Exists(id)) =>
                    orders'[id].paymentStatus = "failed"]_vars

\* C12 witness: a delivery marked a confirmed order failed and was answered
PaymentFailedApplied ==
  /\ redelivery.event \in PaymentFailed
  /\ \E s \in Slots : req[s].pc = "done" /\ req[s].resp = 200
  /\ \E o \in DOMAIN orders :
       /\ o = redelivery.event.orderId
       /\ orders[o].paymentStatus = "failed"
       /\ orders[o].status = "confirmed"

\* the order after the event's update data was written, and the shipments
\* after the trigger ran for it once with the scenario's provider answers
ConvergedOrder ==
  LET before == redelivery.before[1]
      paid == IF redelivery.handler = "order"
              THEN ApplyUpdateData(before, UpdateData(redelivery.event, before))
              ELSE PaidData(before)
      created == paid.shippingAddress # NoAddr /\ redelivery.rates # <<>>
  IN [order |->
        [paid EXCEPT !.shipmentId =
           IF created /\ redelivery.outcome = "created" THEN 1 ELSE 0],
      shipments |->
        IF created /\ redelivery.outcome # "failed"
        THEN <<[orderId |-> 1, rate |-> redelivery.rates[1]]>>
        ELSE <<>>]

BothArrived ==
  redelivery.event \in CompletedExisting /\ started = 2 /\ AllAnswered

\* C13 (SpecArrival): for one pending order, once its session-completed
\* event and its succeeded charge.updated event were both delivered and
\* answered, the order and the provider's shipments are what the scenario
\* alone determines: the same whichever event arrived first and however
\* the two handlers interleaved.
ArrivalOrderConverges ==
  BothArrived =>
    /\ orders = <<ConvergedOrder.order>>
    /\ shipments = ConvergedOrder.shipments

\* C13 witness: the charge.updated event arrived first and was applied, the
\* session-completed event followed, and one shipment was created
ChargeArrivedFirst ==
  /\ BothArrived
  /\ redelivery.first = "charge"
  /\ sessions # <<>>
  /\ orders[1].shipmentId = 1

\* the listed session whose payment intent is the charge's
MatchedSession ==
  FindByIntent(ListSessions(ChargeListLimit(redelivery.handler)),
               redelivery.event.payment_intent)

\* C14 (SpecReplayPending): once a succeeded charge.updated event whose
\* payment intent matches a listed session carrying the id of a pending
\* order was delivered and answered, the order is confirmed/paid and, having
\* an address and no shipment reference, was handed to the shipment trigger
\* (its rates were looked up).
ChargeHandledAsCompleted ==
  ( /\ redelivery.event \in ChargeUpdated
    /\ redelivery.event.chargeOk
    /\ Exists(MatchedSession.orderId)
    /\ started >= 1
    /\ AllAnswered )
  => LET id == MatchedSession.orderId IN
     /\ orders[id].paymentStatus = "paid"
     /\ orders[id].status = "confirmed"
     /\ orders[id].shippingAddress # NoAddr => rateCalls[id] >= 1

\* the redelivered charge.updated event finds no session
NoListedSessionMatches ==
  LET e == redelivery.event
      list == ListSessions(ChargeListLimit(redelivery.handler))
  IN /\ e \in ChargeUpdated
     /\ \/ e.payment_intent = "none"
        \/ \A i \in DOMAIN list : list[i].payment_intent # e.payment_intent

\* C15 (SpecReplay): no step of a delivery of a charge.updated event that
\* carries no payment intent, or whose payment intent no listed session
\* has, changes the ledger or the provider's state, and every such delivery
\* is answered 200.
UnmatchedChargeIsNoOp ==
  [][NoListedSessionMatches =>
       /\ Ledger' = Ledger
       /\ \A s \in Slots : Answered(s) => req'[s].resp = 200]_vars

\* C15 witness: sessions were listed, none had the charge's payment intent,
\* and the delivery was answered 200
UnmatchedChargeAnswered ==
  /\ NoListedSessionMatches
  /\ redelivery.event.payment_intent # "none"
  /\ redelivery.event.chargeOk
  /\ sessions # <<>>
  /\ \E s \in Slots : req[s].pc = "done" /\ req[s].resp = 200

\* the event types an endpoint has a branch for
HandledTypes(h) ==
  IF h = "order"
  THEN {"checkout.session.completed", "payment_intent.payment_failed",
        "charge.updated"}
  ELSE {"checkout.session.completed", "charge.updated"}

\* C16 (SpecReplay): no step of a delivery of a verified event whose type
\* the endpoint has no branch for changes the ledger or the provider's
\* state, and every such delivery is answered 200.
UnhandledIsNoOp ==
  [][redelivery.event.type \notin HandledTypes(redelivery.handler) =>
       /\ Ledger' = Ledger
       /\ \A s \in Slots : Answered(s) => req'[s].resp = 200]_vars

\* C16 witness: an event of another type was delivered and answered 200
UnhandledAnswered ==
  /\ redelivery.event \in OtherEvents
  /\ orders # <<>>
  /\ \E s \in Slots :
       req[s].verified /\ req[s].pc = "done" /\ req[s].resp = 200

\* a rate lookup or a createShipment call of the request in slot s ends
TriggerStep(s) ==
  req[s].pc \in {"getRates", "createShipment"} /\ req'[s] # req[s]

\* C17 (SpecReplay): whatever the outcome of a rate lookup or of a
\* createShipment call made by a webhook delivery, no order is removed, no
\* order's status or paymentStatus changes (the order the call is made for
\* stays as the reconciliation left it), and the delivery, when the call
\* ends it, is answered 200.
ShipmentFailureIsolated ==
  [][\A s \in Slots :
       TriggerStep(s) =>
         /\ DOMAIN orders' = DOMAIN orders
         /\ \A o \in DOMAIN orders :
              /\ orders'[o].status = orders[o].status
              /\ orders'[o].paymentStatus = orders[o].paymentStatus
         /\ req'[s].pc = "done" => req'[s].resp = 200]_vars

\* C17 witness: a delivery whose trigger created no shipment was answered 200
\* and its order is confirmed/paid
ShipmentFailedAnswered200 ==
  /\ redelivery.event \in CompletedExisting
  /\ started = 1
  /\ \E s \in Slots : req[s].pc = "done" /\ req[s].resp = 200
  /\ \E o \in DOMAIN orders :
       /\ rateCalls[o] = 1
       /\ ShipmentsOf(o) = {}
       /\ orders[o].paymentStatus = "paid"
       /\ orders[o].status = "confirmed"

CommittedAfter(s) ==
  LET id == req'[s].oid IN
  /\ id \in DOMAIN orders'
  /\ orders'[id].status = "confirmed"
  /\ orders'[id].paymentStatus = "paid"

Reconciled(r) ==
  IF r.ev.orderId # 0 THEN r.oid = r.ev.orderId
  ELSE r.oid \in DOMAIN orders /\ origin[r.oid] = r.ev

\* C19 (SpecArrival): a rate lookup is made for the reconciled order; when
\* the provider returns no rate the delivery is answered 200 without a
\* createShipment call; when it returns rates the delivery makes one
\* createShipment call, with the first rate of the list and the id of that
\* order, and is answered after it; a shipment appears only in a
\* createShipment call and carries that rate and that id.
ShipmentIffRates ==
  [][\A s \in Slots :
       /\ (req[s].pc = "getRates" /\ req'[s] # req[s]) =>
            /\ Reconciled(req[s])
            /\ shipments' = shipments
            /\ IF redelivery.rates = <<>>
               THEN req'[s].pc = "done" /\ req'[s].resp = 200
               ELSE /\ req'[s].pc = "createShipment"
                    /\ req'[s].rate = redelivery.rates[1]
                    /\ req'[s].oid = req[s].oid
       /\ (req'[s].pc = "createShipment" /\ req[s].pc # "createShipment")
            => req[s].pc = "getRates"
       /\ (req[s].pc = "createShipment" /\ req'[s] # req[s]) =>
            /\ req'[s].pc = "done" /\ req'[s].resp = 200
            /\ shipments' # shipments =>
                 shipments' = Append(shipments,
                                [orderId |-> req[s].oid,
                                 rate |-> redelivery.rates[1]])
       /\ shipments' # shipments =>
            \E t \in Slots : req[t].pc = "createShipment" /\ req'[t] # req[t]]_vars

\* C19 witness: the provider returned two rates and the delivery is about to
\* call createShipment with the first of them
FirstRateChosen ==
  /\ redelivery.rates = <<"rateB", "rateA">>
  /\ \E s \in Slots :
       /\ req[s].pc = "createShipment"
       /\ req[s].rate = "rateB"
       /\ rateCalls[req[s].oid] = 1

LedgerGrowth ==
  /\ \A o \in DOMAIN orders :
       /\ o \in DOMAIN orders'
       /\ orders'[o].orderItems = orders[o].orderItems
  /\ Len(orders') # Len(orders) =>
       LET new == Len(orders) + 1 IN
       /\ Len(orders') = new /\ Len(origin') = new
       /\ origin'[new] \in CompletedDeferred
       /\ orders'[new].status = "confirmed"
       /\ orders'[new].paymentStatus = "paid"
       /\ orders'[new].orderItems = "metadata"
       /\ \A p \in DOMAIN orders : orders'[p] = orders[p]

DeferredSessions == {i \in DOMAIN sessions : sessions[i].orderData # NoString}

\* C21 (SpecCheckout): no step of a create-checkout-session request, whatever
\* its credentials, its body and the answers of the ledger and of the
\* processor, creates or changes an order; sessions are all it leaves behind.
CheckoutLeavesNoTrace ==
  [][orders' = orders /\ origin' = origin]_vars

\* two checkouts were answered with a session each, one of them deferred
CheckoutsAbandoned ==
  /\ AllAnswered
  /\ Len(sessions) = 2
  /\ DeferredSessions # {}
  /\ req["r1"].kind = "checkout" /\ req["r1"].resp = 200

\* the requests that wait for the processor to create their session
AtProcessor == {s \in Slots : req[s].pc = "checkoutCreate"}

\* C22 (SpecCheckout): a deferred payload that serializes to more than 500
\* bytes is rejected before the processor is called: no request waits for
\* the processor with such a payload, and no session carries one.
OverLimitNeverSent ==
  /\ \A s \in AtProcessor :
       Utf8Bytes(req[s].session.orderData) <= MetadataLimit
  /\ \A i \in DOMAIN sessions :
       Utf8Bytes(sessions[i].orderData) <= MetadataLimit

\* C23 (SpecCheckout): every session request sent to the processor comes
\* from an authenticated request and carries that requester's user id in
\* its metadata.
SessionCarriesRequester ==
  \A s \in AtProcessor :
    /\ req[s].auth # NoUser
    /\ req[s].session.authenticatedUserId = req[s].auth

\* the sessions at the processor whose metadata names the order
SessionsOf(o) == {i \in DOMAIN sessions : sessions[i].orderId = o}

\* What the decision table makes of an order: <<status, paymentStatus>>
TableOutcome(o) ==
  LET b == redelivery.before[o]
      kept == <<b.status, b.paymentStatus>>
      failed == <<b.status, "failed">>
  IN IF b.paymentStatus # "pending" THEN kept
     ELSE IF SessionsOf(o) = {} THEN (IF b.old THEN failed ELSE kept)
     ELSE IF \A i \in SessionsOf(o) : sessions[i].payment_status = "paid"
          THEN <<"confirmed", "paid">>
     ELSE IF \A i \in SessionsOf(o) : sessions[i].payment_status = "unpaid"
          THEN failed
     ELSE kept

\* a sweep ran to its answer and none is running
SweepCompleted ==
  /\ AllAnswered
  /\ \E s \in Slots : req[s].kind = "sweep" /\ req[s].resp = 200

\* C24 (SpecSweep): when the ledger and the processor answer every call, a
\* completed sweep has left every order as the decision table says: an order
\* pending when scanned is failed without session after 24 hours, kept
\* without session before, confirmed/paid with a paid session, failed with
\* an unpaid one and kept otherwise; an order that was not pending is as it
\* was.
SweepAppliesTable ==
  (redelivery.oks = {TRUE} /\ SweepCompleted)
    => \A o \in DOMAIN orders :
         <<orders[o].status, orders[o].paymentStatus>> = TableOutcome(o)

\* the orders the first sweep found pending
ScannedPending ==
  {o \in DOMAIN orders : redelivery.before[o].paymentStatus = "pending"}

\* of those, the ones whose payment status is now ps
ScannedNow(ps) == {o \in ScannedPending : orders[o].paymentStatus = ps}

\* the first sweep was answered with its counts and no other has started
FirstSweepAnswered ==
  /\ started = 1
  /\ req["r1"].kind = "sweep" /\ req["r1"].pc = "done" /\ req["r1"].resp = 200

\* three pending orders: one older than 24 hours without session, one with
\* a paid session and one with an unpaid session, the sessions being among
\* those the sweep lists; the ledger and the processor answer
ThreeOrderExample ==
  /\ redelivery.oks = {TRUE}
  /\ Len(sessions) <= SweepListLimit
  /\ \E a, b, c \in DOMAIN orders :
       /\ ScannedPending = {a, b, c} /\ Cardinality({a, b, c}) = 3
       /\ redelivery.before[a].old /\ SessionsOf(a) = {}
       /\ SessionsOf(b) # {} /\ SessionsOf(c) # {}
       /\ \A i \in SessionsOf(b) : sessions[i].payment_status = "paid"
       /\ \A i \in SessionsOf(c) : sessions[i].payment_status = "unpaid"

\* C25 (SpecSweep): the counts a sweep answers with are what it did:
\* fixedCount orders marked confirmed/paid, failedCount marked failed,
\* noSessionCount left pending, together totalProcessed, the number of
\* pending orders scanned, also when calls of the ledger or the processor
\* fail; the three-order example gives 1, 2 and 0.
SweepCountsMatch ==
  FirstSweepAnswered =>
    LET c == req["r1"].counts IN
    /\ c.fixedCount = Cardinality(ScannedNow("paid"))
    /\ c.failedCount = Cardinality(ScannedNow("failed"))
    /\ c.noSessionCount = Cardinality(ScannedNow("pending"))
    /\ c.totalProcessed = Cardinality(ScannedPending)
    /\ c.fixedCount + c.failedCount + c.noSessionCount = c.totalProcessed
    /\ ThreeOrderExample =>
         c.fixedCount = 1 /\ c.failedCount = 2 /\ c.noSessionCount = 0

\* the sweep of the three-order example was answered
ThreeOrderExampleSwept == FirstSweepAnswered /\ ThreeOrderExample

\* the sweep's update of an order is committed in this step
SweepWrites(s, o) ==
  /\ req[s].pc = "sweepUpdate"
  /\ req'[s] # req[s]
  /\ orders'[o] # orders[o]

\* C26 (Spec): the sweep's write is conditional on the order's payment
\* status: it changes no order that is no longer pending when it writes, so
\* an order a webhook has marked paid since the scan is not set to failed.
SweepWriteIsConditional ==
  [][\A s \in Slots, o \in DOMAIN orders :
       SweepWrites(s, o) => orders[o].paymentStatus = "pending"]_vars

\* the order is pending and the table has an exit for it: a paid or unpaid
\* session, or none and more than 24 hours of age
Convergent(o) ==
  /\ Exists(o)
  /\ orders[o].paymentStatus = "pending"
  /\ \/ \E i \in SessionsOf(o) :
          sessions[i].payment_status \in {"paid", "unpaid"}
     \/ SessionsOf(o) = {} /\ orders[o].old

\* C27 (SpecSweepLive): while the sweep is run again and again and every call
\* is answered, each pending order with a paid or unpaid session, or with no
\* session and more than 24 hours of age, eventually is no longer pending.
SweepConverges ==
  \A o \in 1..SweepOrders :
    Convergent(o) ~> (orders[o].paymentStatus \in {"paid", "failed"})

\* a sweep has taken an order that was pending to paid, another to failed
SweepConverged ==
  /\ AllAnswered
  /\ ScannedNow("paid") # {}
  /\ ScannedNow("failed") # {}

\* the step a webhook delivery takes when its ledger write throws
FailedWrite(s) ==
  \/ OrderUpdateExisting(s, FALSE)
  \/ PaymentsUpdateExisting(s, FALSE)
  \/ CreateOrder(s, FALSE)
  \/ OrderPaymentFailed(s, FALSE)
  \/ ChargeUpdate(s, FALSE)

\* C28 (Spec): a webhook delivery whose own order update or order creation
\* throws is answered with a 5xx status, never with a 2xx or 4xx one.
WriteFailureIs5xx ==
  [][\A s \in Slots : FailedWrite(s) => req'[s].resp >= 500]_vars

\* the first candidate of an event, in the order shipping, billing,
\* metadata, that is complete; "null" when none is
FirstComplete(e) ==
  IF e.shipping /\ e.shippingComplete THEN "shipping"
  ELSE IF e.customer_details # "none" /\ e.billingComplete
       THEN "customer_details"
  ELSE IF e.metaAddress /\ e.metaComplete THEN "metadata"
  ELSE "null"

\* the orders a webhook delivery created from a deferred payload
DeferredOrders == {o \in DOMAIN orders : origin[o] # NoEvent}

\* C29 (SpecAddress): the address stored on an order created from a deferred
\* payload is the first complete candidate in the order shipping details,
\* billing details, metadata address, and no order is created when no
\* candidate is complete.
AddressIsFirstComplete ==
  \A o \in DeferredOrders :
    /\ FirstComplete(origin[o]) # "null"
    /\ orders[o].shippingAddress.street1 = FirstComplete(origin[o])

\* the sources of the street-level fields an address has
StreetSources(a) == {a[f] : f \in StreetLevel} \ {"absent"}

\* C30 (SpecAddress): on every order created from a deferred payload, street1,
\* street2, city, state, postal code and country come from one and the same
\* candidate.
StreetLevelFromOneSource ==
  \A o \in DeferredOrders :
    Cardinality(StreetSources(orders[o].shippingAddress)) = 1

\* an order was created whose street comes from the session's shipping
\* object and whose e-mail comes from the customer details
ContactFromAnotherCandidate ==
  \E o \in DeferredOrders :
    /\ orders[o].shippingAddress.street1 = "shipping"
    /\ orders[o].shippingAddress.email = "customer_details"
    /\ ~origin[o].shippingComplete /\ origin[o].metaComplete

\* the shipping details or the billing details of the event form a complete
\* address
DetailsComplete(e) ==
  \/ e.shipping_details /\ e.shippingComplete
  \/ e.customer_details # "none" /\ e.billingComplete

\* C31 (SpecReplay): while a session-completed event is reconciled for an
\* existing order that carries a shipping address, an event whose shipping
\* and billing details form no complete address leaves the stored address
\* unchanged.
AddressNotWorsened ==
  [][\A o \in DOMAIN orders :
       ( /\ redelivery.event \in CompletedExisting
         /\ redelivery.event.orderId = o
         /\ orders[o].shippingAddress # NoAddr
         /\ ~DetailsComplete(redelivery.event) )
       => orders'[o].shippingAddress = orders[o].shippingAddress]_vars

\* the step changes the lifecycle status or the payment status of order o
StatusChanges(o) ==
  \/ orders'[o].status # orders[o].status
  \/ orders'[o].paymentStatus # orders[o].paymentStatus

\* the step is one of a request of one of the kinds
StepOf(kinds) == \E s \in Slots : req[s].kind \in kinds /\ req'[s] # req[s]

\* C32 (SpecCreated): every step that changes an order's status or
\* paymentStatus is a step of a webhook delivery or of the sweep; no step of
\* retry-payment, verify-payment-status or create-checkout-session does.
OnlyWebhookAndSweepWrite ==
  [][\A o \in DOMAIN orders :
       StatusChanges(o) => StepOf({"webhook", "sweep"})]_vars

\* the payment state the event carries says that the payment succeeded
EventSaysPaid(e) ==
  IF e.type = "charge.updated" THEN e.chargeOk
  ELSE e.type = "checkout.session.completed" /\ e.payment_status = "paid"

\* the step makes order o paid: it was not, or did not exist
BecomesPaid(o) ==
  /\ orders'[o].paymentStatus = "paid"
  /\ o \in DOMAIN orders => orders[o].paymentStatus # "paid"

\* C33 (SpecReplayPending): a webhook delivery makes an order paid, or
\* creates it as paid, only when the event it reconciles reports a
\* succeeded payment: charge.status succeeded and charge.paid for
\* charge.updated, session.payment_status paid for
\* checkout.session.completed.
PaidOnlyWhenEventSaysPaid ==
  [][\A o \in DOMAIN orders' :
       BecomesPaid(o) => EventSaysPaid(redelivery.event)]_vars

\* the value that identifies the owner of a deferred order is missing from
\* the event or matches no user, or the event carries no shipping address
Unresolvable(h, e) ==
  /\ e \in CompletedDeferred
  /\ e.orderData = "ok"
  /\ \/ h = "order" /\ UserByEmail(e.customer_details) = NoUser
     \/ h = "payments" /\ UserById(e.authenticatedUserId) = NoUser
     \/ ~e.shipping /\ ~e.metaAddress

\* the step answers a request with a status of the 4xx class, or answers none
Answers4xx ==
  \A s \in Slots :
    (req'[s] # req[s] /\ req'[s].pc = "done") =>
      (req'[s].resp >= 400 /\ req'[s].resp < 500)

\* C34 (SpecReplay): while an event is delivered whose deferred order has
\* no resolvable owner or no shipping address, no step creates or changes
\* an order, none looks up rates or creates a shipment, and every answer is
\* a 4xx status.
UnresolvableCreatesNothing ==
  [][Unresolvable(redelivery.handler, redelivery.event) =>
       /\ orders' = orders
       /\ shipments' = shipments
       /\ rateCalls' = rateCalls
       /\ Answers4xx]_vars

\* a delivery whose metadata names a user without record was answered 404,
\* though the processor reports the e-mail of a known user
UnknownOwnerAnswered ==
  /\ redelivery.handler = "payments"
  /\ Unresolvable(redelivery.handler, redelivery.event)
  /\ redelivery.event.authenticatedUserId = "ghost"
  /\ redelivery.event.customer_details = "a@mail"
  /\ redelivery.event.metaAddress
  /\ \E s \in Slots : req[s].pc = "done" /\ req[s].resp = 404

\* the step of a retry-payment request in slot s
RetryStepIn(s) == req[s].kind = "retry" /\ req'[s] # req[s]

\* the only write a retry makes: failed to pending, the lifecycle status
\* kept, a session for the order at the processor, the request answered 200
RetryWrite(s, o) ==
  /\ orders[o].paymentStatus = "failed"
  /\ orders'[o].paymentStatus = "pending"
  /\ orders'[o].status = orders[o].status
  /\ \E i \in DOMAIN sessions : sessions[i].orderId = o
  /\ req'[s].resp = 200

\* C35 (SpecRetry): with requests served one after the other, a step of
\* retry-payment changes an order only from failed to pending, only after
\* the processor created the session, and never its lifecycle status; a
\* retry answered 400, 404, 500 or 503 leaves the ledger unchanged.
RetryIsGuarded ==
  [][\A s \in Slots : RetryStepIn(s) =>
       /\ Len(orders') = Len(orders)
       /\ \A o \in DOMAIN orders :
            orders'[o] # orders[o] => RetryWrite(s, o)
       /\ req'[s].resp \in {400, 404, 500, 503} => orders' = orders]_vars

\* a retry moved a confirmed order whose payment had failed to pending
RetryReopenedPayment ==
  \E s \in Slots :
    /\ req[s].kind = "retry" /\ req[s].pc = "done" /\ req[s].resp = 200
    /\ orders # <<>>
    /\ orders[1].paymentStatus = "pending"
    /\ orders[1].status = "confirmed"
    /\ sessions # <<>> /\ sessions[1].orderId = 1

\* C36 (Spec): whatever webhook deliveries and sweeps run between the steps
\* of a retry-payment call, no step of the call takes an order that is paid
\* to another payment status.
RetryKeepsPaid ==
  [][\A s \in Slots, o \in DOMAIN orders :
       (RetryStepIn(s) /\ orders[o].paymentStatus = "paid") =>
         orders'[o].paymentStatus = "paid"]_vars

\* what the processor's sessions of an order say about it: "paid" or
\* "failed", or "none" when a session exists that is neither paid nor unpaid
SessionVerdict(o) ==
  IF SessionsOf(o) = {} THEN "failed"
  ELSE IF \E i \in SessionsOf(o) : sessions[i].payment_status = "paid"
       THEN "paid"
  ELSE IF \E i \in SessionsOf(o) : sessions[i].payment_status = "unpaid"
       THEN "failed"
  ELSE "none"

\* the only write verify-payment-status makes: on a pending order last
\* updated more than an hour ago, to what its session says, answered with
\* fixed: true
VerifyWrite(s, o) ==
  /\ orders[o].paymentStatus = "pending" /\ orders[o].stale
  /\ req'[s].resp = 200 /\ req'[s].fixed
  /\ SessionVerdict(o) # "none"
  /\ SessionVerdict(o) = "paid" =>
       orders'[o].paymentStatus = "paid" /\ orders'[o].status = "confirmed"
  /\ SessionVerdict(o) = "failed" =>
       /\ orders'[o].paymentStatus = "failed"
       /\ orders'[o].status = orders[o].status

\* the order is not pending, was updated within the hour, or has a session
\* that is neither paid nor unpaid
NothingToVerify(o) ==
  \/ orders[o].paymentStatus # "pending"
  \/ ~orders[o].stale
  \/ SessionVerdict(o) = "none"

\* C37 (SpecVerify): with requests served one after the other,
\* verify-payment-status changes an order only when it is pending and its
\* last update is more than an hour old, to confirmed/paid for a paid
\* session and to failed for an unpaid or no session; an answer with
\* fixed: false comes with an unchanged ledger, and that is the answer for
\* an order that is not pending, recently updated, or whose session has
\* another status.
VerifyIsGuarded ==
  [][\A s \in Slots : (req[s].kind = "verify" /\ req'[s] # req[s]) =>
       /\ Len(orders') = Len(orders)
       /\ \A o \in DOMAIN orders :
            orders'[o] # orders[o] => VerifyWrite(s, o)
       /\ (req'[s].pc = "done" /\ ~req'[s].fixed) => orders' = orders
       /\ ( /\ req'[s].pc = "done" /\ req'[s].resp = 200
            /\ Exists(req[s].oid) /\ NothingToVerify(req[s].oid) )
          => ~req'[s].fixed]_vars

\* a verification found the paid session of a stuck order and confirmed it
VerifyFixedAnOrder ==
  \E s \in Slots :
    /\ req[s].kind = "verify" /\ req[s].pc = "done" /\ req[s].fixed
    /\ orders # <<>>
    /\ orders[1].paymentStatus = "paid" /\ orders[1].status = "confirmed"
    /\ SessionVerdict(1) = "paid"

\* the processor holds a paid session of order o
HasPaidSession(o) ==
  \E i \in SessionsOf(o) : sessions[i].payment_status = "paid"

\* C38 (SpecSweep): no step marks failed an order of which the processor
\* holds a paid session, however many more recent sessions it holds.
PaidSessionNeverFailed ==
  [][\A o \in DOMAIN orders :
       (HasPaidSession(o) /\ orders[o].paymentStatus # "failed") =>
         orders'[o].paymentStatus # "failed"]_vars

\* the step of a sweep in which the processor's listing or the ledger's
\* update throws
SweepFailure(s) == SweepList(s, FALSE) \/ SweepUpdate(s, FALSE)

\* the orders counted so far
Counted(c) == c.fixedCount + c.failedCount + c.noSessionCount

\* the sweep in slot s is inside its loop
InLoop(r) == r.pc \in {"sweepList", "sweepUpdate"}

\* what is left of the loop: two awaits for each order still in the list
LoopMeasure(r) ==
  IF r.pc = "sweepList" THEN 2 * Len(r.list)
  ELSE IF r.pc = "sweepUpdate" THEN 2 * Len(r.list) - 1
  ELSE 0

\* the loop goes on with the orders after the current one, or answers 200
\* when there is none
GoesOn(s) ==
  IF Len(req[s].list) > 1
  THEN req'[s].pc = "sweepList" /\ req'[s].list = Tail(req[s].list)
  ELSE req'[s].pc = "done" /\ req'[s].resp = 200

\* every scanned order is either counted or still in the list, and none is
\* in the list twice
EachOnce(r) ==
  /\ Counted(r.counts) + Len(r.list) = r.counts.totalProcessed
  /\ \A i, j \in DOMAIN r.list : r.list[i] = r.list[j] => i = j

SweepFailureKept(s) ==
  /\ orders' = orders
  /\ req'[s].counts =
       [req[s].counts EXCEPT !.noSessionCount = @ + 1]
  /\ GoesOn(s)

SweepLoopStep(s) ==
  /\ LoopMeasure(req'[s]) < LoopMeasure(req[s])
  /\ req'[s].counts.totalProcessed = req[s].counts.totalProcessed
  /\ req'[s].pc = "done" =>
       /\ req'[s].resp = 200
       /\ Counted(req'[s].counts) = req'[s].counts.totalProcessed

\* C39 (SpecSweep): a throwing processor query or ledger write inside the
\* sweep's loop leaves the ledger as it is, counts the order as unresolved
\* and goes on with the remaining orders; every step of the loop brings it
\* nearer to its end, every scanned order is counted once, and the sweep
\* answers 200 with totalProcessed the number of orders counted.
SweepFailureIsolated ==
  /\ [](\A s \in Slots : InLoop(req[s]) => EachOnce(req[s]))
  /\ [][\A s \in Slots :
         /\ SweepFailure(s) => SweepFailureKept(s)
         /\ (InLoop(req[s]) /\ req'[s] # req[s]) => SweepLoopStep(s)]_vars

\* a sweep failed on an order whose session is paid, left it pending and
\* went on to confirm an older order
SweepWentOn ==
  /\ FirstSweepAnswered
  /\ Len(sessions) <= SweepListLimit
  /\ \E a, b \in ScannedPending :
       /\ a > b
       /\ HasPaidSession(a) /\ orders[a].paymentStatus = "pending"
       /\ orders[b].paymentStatus = "paid"
       /\ req["r1"].counts.noSessionCount >= 1
       /\ req["r1"].counts.fixedCount >= 1

\* both handlers have answered their delivery of the event
TwinsAnswered == started = 2 /\ AllAnswered

\* what the claim compares of an order
Compared(o) ==
  [userId |-> o.userId, status |-> o.status, paymentStatus |-> o.paymentStatus,
   shippingAddress |-> o.shippingAddress]

\* C40 (SpecTwin): after the same verified event was reconciled by the
\* handler of order.routes.ts on one copy of the ledger and by the handler
\* of payments.routes.ts on the other, the two copies hold the same orders
\* with the same owner, status, paymentStatus and shipping address, and the
\* same shipments were created for them.
HandlersEquivalent ==
  TwinsAnswered =>
    /\ Len(orders) \in {0, 2}
    /\ Len(orders) = 2 =>
         /\ Compared(orders[1]) = Compared(orders[2])
         /\ Cardinality(ShipmentsOf(1)) = Cardinality(ShipmentsOf(2))
====
